---- MODULE Spec2Model ----
(***************************************************************************)
(* Table-of-contents extraction of the Korean book search plugin.          *)
(*                                                                         *)
(* Part 1 (specification Spec): the orchestrator extractTableOfContents    *)
(* of ImprovedTOCExtractor (api/toc-extractor-improved.ts, 4 strategies)   *)
(* and of TOCExtractor (unnamed/part_001, 6 strategies).  The two          *)
(* loops are the same code over different strategy lists.  What a strategy *)
(* call `await methods[i]()` yields (a TOCExtractionResult, or an          *)
(* exception) is the input of one loop iteration.                          *)
(*                                                                         *)
(* Part 2: one candidate text.  Specification SpecText applies the         *)
(* validators (isValidTableOfContentsStrict, isValidTableOfContents) and   *)
(* the two calculateConfidence functions to it; specification SpecStrategy *)
(* runs one strategy on it, from the response to the result.               *)
(*                                                                         *)
(* Confidence values are integers in hundredths (0.8 is 80).               *)
(***************************************************************************)
EXTENDS Integers, Sequences, FiniteSets, TLC

VARIABLES
    extractor,    \* the class of the instance: "improved" (ImprovedTOCExtractor)
                  \* or "legacy" (TOCExtractor)
    methodStats,  \* this.methodStats: method name -> [attempts, successes]
    pc,           \* "idle" | "loop" | "done": position of extractTableOfContents
    i,            \* the loop index (1-based)
    bestResult,   \* the local bestResult, NoResult for null
    returned,     \* the value the call resolved to, NoResult while running
    escaped,      \* TRUE when the call rejected with an exception
    invoked,      \* indexes of the strategies invoked by the current call, in order
    outputs,      \* what each invoked strategy yielded, in order
    calls,        \* number of calls finished on this instance
    firstOutputs, \* the outputs of the first call (the later calls are given the same)
    firstReturned,\* what the first call returned
    \* --- Part 2
    candidate,    \* the candidate text (`toc`) a strategy hands to the validator
    verdict,      \* "none", or the validator's answer on candidate: "accept" | "reject"
    attempt,      \* "none", or the inputs of the strategy attempt made on candidate
    strategyResult, \* NoResult, or the TOCExtractionResult of that attempt
    score,        \* NoScore, or an application of calculateConfidence to candidate
    \* --- Part 3: MultiSiteScraper and SimpleCache
    now,          \* Date.now(), in days
    cache,        \* SimpleCache.cache: key -> NoEntry or [toc, timestamp]
    sPc,          \* "idle" | "running" | "done": position of scrapeTOC
    sKey,         \* cacheKey of the current scrapeTOC call
    sStart,       \* Date.now() when the current call started
    scraped,      \* per provider: NotInvoked, Pending, Hung, Threw or the text of
                  \* scraper.scrape in the current call
    firstSettled, \* the provider whose task settled first in the current call, 0 if none
    sReturned,    \* what the current call resolved to (NoResult while running)
    prior,        \* the last result stored for sKey before the current call
    lastSet,      \* per key: the last [toc, timestamp] SimpleCache.set stored, or NoEntry
    cacheRead,    \* the last direct SimpleCache.get, if no set or clear followed:
                  \* [key, value, at], or NoRead
    \* --- Part 4: TOCPerformanceMonitor
    metrics,      \* this.metrics
    mNow,         \* the clock `new Date()` reads, in milliseconds
    history,      \* the recordResult calls made since construction or reset, in
                  \* order, each with the time it was made
    lastCall,     \* the last getBestMethod / exportMetrics / importMetrics call and
                  \* what it returned, if no recordResult or reset followed; NoCall
    snapshot,     \* the object the last getMetrics call returned: its own copies
                  \* of the totals, and its nested objects (Shared while they
                  \* are the very objects this.metrics refers to); NoSnapshot
    snapshotTaken, \* the metrics at the time of that getMetrics call
    \* --- Part 5: SessionManager
    cookies,      \* this.cookies: cookie name -> value, "" when the jar has no such cookie
    sessionEstablished, \* this.sessionEstablished
    cPc,          \* per caller: "idle" | "handshake" (awaiting the request of
                  \* establishSession) | "request" (awaiting the target request) | "done"
    cOp,          \* per caller: the call it is in, NoOp when idle
    cOutcome,     \* per caller: how its last call ended: "none" | "ok" |
                  \* "sessionError" | "requestError"
    traffic,      \* the requests sent, the responses received and the resetSession
                  \* calls of this instance, in order
    sessionCalls, \* number of calls started on this instance
    \* --- Part 6: KRBookPlugin.createBookNote
    notePc,       \* "idle" | "scrape" | "api" | "playwright" | "isbn" (awaiting that
                  \* lookup) | "create" (in createNoteFile, up to vault.create) |
                  \* "open" (awaiting leaf.openFile) | "done"
    noteBook,     \* the book object of the call
    openNoteAfterCreation, \* this.settings.openNoteAfterCreation
    noteInTry,    \* the createNoteFile call in progress stands in the try block
    noteInvocations, \* createNoteFile invocations of the current createBookNote call
    noteCreated,  \* files the current createBookNote call has created
    vaultFiles,   \* note files in the vault
    noteOutcome,  \* "none" | "file" | "rejected"
    noteCalls     \* number of createBookNote calls

orchVars == <<extractor, methodStats, pc, i, bestResult, returned, escaped,
              invoked, outputs, calls, firstOutputs, firstReturned>>

textVars == <<candidate, verdict, attempt, strategyResult, score>>

scrapeVars == <<now, cache, sPc, sKey, sStart, scraped, firstSettled, sReturned,
                prior, lastSet, cacheRead>>

snapVars == <<snapshot, snapshotTaken>>

monVars == <<metrics, mNow, history, lastCall, snapVars>>

sessVars == <<cookies, sessionEstablished, cPc, cOp, cOutcome, traffic, sessionCalls>>

noteVars == <<notePc, noteBook, openNoteAfterCreation, noteInTry, noteInvocations,
              noteCreated, vaultFiles, noteOutcome, noteCalls>>

laterVars == <<sessVars, noteVars>>

vars == <<orchVars, textVars, scrapeVars, monVars, laterVars>>

\* Number of extractTableOfContents calls made on one instance.
MaxCalls == 2

\* ------------------------------------------------------------------------
\* Results (interface TOCExtractionResult)

NoResult == [none |-> TRUE]

createFailResult(method, error) ==
    [success |-> FALSE, method |-> method, confidence |-> 0, error |-> error]

\* The object literal a strategy returns on success.
SuccessResult(method, confidence) ==
    [success |-> TRUE, method |-> method, confidence |-> confidence, error |-> ""]

\* The object literal returned when the loop ends with bestResult null.
AllFailedResult ==
    [success |-> FALSE, method |-> "all-failed", confidence |-> 0,
     error |-> "AllMethodsFailed"]

\* The per-strategy reasons a result carries.  TOCExtractionResult has the
\* fields success, content, method, confidence, responseTime, error, metadata:
\* no field holds a list of reasons.
ReasonList(r) == IF "reasons" \in DOMAIN r THEN r.reasons ELSE << >>

\* ------------------------------------------------------------------------
\* Strategy lists

ImprovedMethodNames ==
    <<"TargetedHTML", "DirectAPI", "EnhancedMetadata", "LimitedFallback">>

LegacyMethodNames ==
    <<"JSON-LD", "Metadata", "DirectAPI", "SearchResults", "MultipleURLs",
      "EnhancedHTML">>

methodNames(e) == IF e = "improved" THEN ImprovedMethodNames ELSE LegacyMethodNames

\* Confidence values a successful strategy result may carry (hundredths).
ConfLevels == {50, 79, 80}

\* What the call methods[k]() can yield: an exception, a fail result of that
\* strategy, or a success result of that strategy.
Throw == [threw |-> TRUE]

StrategyOutcomes(e, k) ==
    {Throw}
      \cup {createFailResult(methodNames(e)[k], "NotFound")}
      \cup {SuccessResult(methodNames(e)[k], c) : c \in ConfLevels}

\* ------------------------------------------------------------------------
\* methodStats

recordAttempt(stats, m) ==
    [stats EXCEPT ![m].attempts = @ + 1]

recordSuccess(stats, m) ==
    [stats EXCEPT ![m].successes = @ + 1]

\* ------------------------------------------------------------------------
\* extractTableOfContents

IsHighConfidence_StrictlyAbove(result) == result.confidence > 80

\* `if (result.confidence >= 0.8) return result;`
IsHighConfidence(result) == result.confidence >= 80

UpdateBest_LastWins(best, result) == result

UpdateBest_OnTie(best, result) ==
    IF best = NoResult \/ result.confidence >= best.confidence THEN result ELSE best

\* `if (!bestResult || result.confidence > bestResult.confidence) bestResult = result;`
UpdateBest(best, result) ==
    IF best = NoResult \/ result.confidence > best.confidence THEN result ELSE best

CatchesStrategyError_NoTry == FALSE

\* The try/catch around one loop iteration catches what the strategy throws.
CatchesStrategyError == TRUE

FinalResult_Null(best) == best

\* `if (bestResult) return bestResult; return {success: false, method: 'all-failed', ...}`
FinalResult(best) == IF best # NoResult THEN best ELSE AllFailedResult

\* extractTableOfContents(book) is called.
Call ==
    /\ pc = "idle"
    /\ calls < MaxCalls
    /\ pc' = "loop"
    /\ i' = 1
    /\ bestResult' = NoResult
    /\ returned' = NoResult
    /\ escaped' = FALSE
    /\ invoked' = << >>
    /\ outputs' = << >>
    /\ UNCHANGED <<extractor, methodStats, calls, firstOutputs, firstReturned>>
    /\ UNCHANGED textVars
    /\ UNCHANGED <<scrapeVars, monVars, laterVars>>

\* The outcomes strategy k may yield in the current call: any outcome in the
\* first call, and in a later call the outcome it yielded in the first call
\* (any outcome if the first call did not reach strategy k).
OutcomesNow(k) ==
    IF calls >= 1 /\ k <= Len(firstOutputs)
    THEN {firstOutputs[k]}
    ELSE StrategyOutcomes(extractor, k)

\* One iteration of `for (let i = 0; i < methods.length; i++)`.
TryStrategy ==
    /\ pc = "loop"
    /\ i <= Len(methodNames(extractor))
    /\ \E o \in OutcomesNow(i) :
         LET name == methodNames(extractor)[i]
             attempted == recordAttempt(methodStats, name)
         IN  /\ invoked' = Append(invoked, i)
             /\ outputs' = Append(outputs, o)
             /\ IF o = Throw
                THEN /\ methodStats' = attempted
                     /\ IF CatchesStrategyError
                        THEN /\ i' = i + 1
                             /\ UNCHANGED <<pc, escaped, bestResult, returned>>
                        ELSE /\ pc' = "done"
                             /\ escaped' = TRUE
                             /\ UNCHANGED <<i, bestResult, returned>>
                ELSE IF o.success
                THEN /\ methodStats' = recordSuccess(attempted, name)
                     /\ IF IsHighConfidence(o)
                        THEN /\ returned' = o
                             /\ pc' = "done"
                             /\ UNCHANGED <<i, bestResult, escaped>>
                        ELSE /\ bestResult' = UpdateBest(bestResult, o)
                             /\ i' = i + 1
                             /\ UNCHANGED <<pc, returned, escaped>>
                ELSE /\ methodStats' = attempted
                     /\ i' = i + 1
                     /\ UNCHANGED <<pc, bestResult, returned, escaped>>
    /\ UNCHANGED <<extractor, calls, firstOutputs, firstReturned>>
    /\ UNCHANGED textVars
    /\ UNCHANGED <<scrapeVars, monVars, laterVars>>

\* After the loop: return bestResult, or the all-failed result.
Exhausted ==
    /\ pc = "loop"
    /\ i > Len(methodNames(extractor))
    /\ returned' = FinalResult(bestResult)
    /\ pc' = "done"
    /\ UNCHANGED <<extractor, methodStats, i, bestResult, escaped, invoked, outputs,
                   calls, firstOutputs, firstReturned>>
    /\ UNCHANGED textVars
    /\ UNCHANGED <<scrapeVars, monVars, laterVars>>

\* The caller receives the outcome; the instance is ready for the next call.
Finish ==
    /\ pc = "done"
    /\ pc' = "idle"
    /\ calls' = calls + 1
    /\ firstOutputs' = IF calls = 0 THEN outputs ELSE firstOutputs
    /\ firstReturned' = IF calls = 0 THEN returned ELSE firstReturned
    /\ UNCHANGED <<extractor, methodStats, i, bestResult, returned, escaped, invoked,
                   outputs>>
    /\ UNCHANGED textVars
    /\ UNCHANGED <<scrapeVars, monVars, laterVars>>

OrchNext == Call \/ TryStrategy \/ Exhausted \/ Finish

\* `const result = await methods[i]()` when the strategy's request is never
\* answered: makeRequest awaits requestUrl({url, method, headers}) with no
\* timeout, so the await never resumes.  recordAttempt has already run.
StrategyHangs ==
    /\ pc = "loop"
    /\ i <= Len(methodNames(extractor))
    /\ pc' = "hung"
    /\ methodStats' = recordAttempt(methodStats, methodNames(extractor)[i])
    /\ invoked' = Append(invoked, i)
    /\ UNCHANGED <<extractor, i, bestResult, returned, escaped, outputs, calls,
                   firstOutputs, firstReturned>>
    /\ UNCHANGED textVars
    /\ UNCHANGED <<scrapeVars, monVars, laterVars>>

OrchHangNext == OrchNext \/ StrategyHangs

\* ------------------------------------------------------------------------
\* Part 2: candidate texts
\*
\* A text is known to the validators and scorers only through its length,
\* the trimmed lengths of its lines and the answers of their regular
\* expressions.  A candidate text is modelled by exactly these:
\*   rep[l]   how many of its lines have trimmed length l (the order of the
\*            lines is read by neither function)
\*   invalid  whether one of the validator's invalidPatterns matches
\*   strong   how many of strongTocPatterns match (strict validator)
\*   items    how many of its lines longer than 1 match the item pattern of
\*            isValidTableOfContents (legacy validator)
\*   hangul   whether the text holds a Hangul syllable (legacy validator)
\* The candidate is the string a strategy holds after its parsing helper
\* (parseHTMLWithKakaoMethod, parseTableOfContentsText, ...) returned: the
\* helpers' own string rewriting is not part of this model.

\* Trimmed line lengths, in increasing order: a line too short to count (1),
\* a line that counts but is shorter than a title (4), title-sized lines
\* (12, 30), a line longer than a title (300) and a very long line (4000).
LineLenSeq == <<1, 4, 12, 30, 300, 4000>>

LineLens == {LineLenSeq[k] : k \in 1..Len(LineLenSeq)}

\* A text holds at most MaxRep lines of each length.
MaxRep == 2

\* In the specification of the strategies a candidate holds at most
\* MaxRepStrategy lines of each length.
MaxRepStrategy == 1

\* strongTocPatterns has 7 entries.
NumStrongPatterns == 7

\* `patterns` of calculateConfidence has 5 entries (in both classes).
NumConfPatterns == 5

\* How many strong patterns a candidate may match: none, one, two, all.
StrongCounts == {0, 1, 2, NumStrongPatterns}

\* How many lines of a candidate may match the legacy item pattern.
ItemCounts == {0, 2, 3, 4}

\* Number of lines of t whose trimmed length is in S (the first k lengths).
RECURSIVE CountUpTo(_, _, _)
CountUpTo(t, S, k) ==
    IF k = 0 THEN 0
    ELSE (IF LineLenSeq[k] \in S THEN t.rep[LineLenSeq[k]] ELSE 0) + CountUpTo(t, S, k - 1)

\* Sum of the trimmed lengths of the lines of t whose trimmed length is in S.
RECURSIVE TotalUpTo(_, _, _)
TotalUpTo(t, S, k) ==
    IF k = 0 THEN 0
    ELSE (IF LineLenSeq[k] \in S THEN LineLenSeq[k] * t.rep[LineLenSeq[k]] ELSE 0)
           + TotalUpTo(t, S, k - 1)

CountLines(t, S) == CountUpTo(t, S, Len(LineLenSeq))

TotalLength(t, S) == TotalUpTo(t, S, Len(LineLenSeq))

\* text.length: the lines and the line breaks between them.
TextLength(t) ==
    LET n == CountLines(t, LineLens)
    IN  TotalLength(t, LineLens) + (IF n > 0 THEN n - 1 ELSE 0)

\* The empty string (also stands for a helper's null: both are falsy).
EmptyText ==
    [rep |-> [l \in LineLens |-> 0], invalid |-> FALSE, strong |-> 0, items |-> 0,
     hangul |-> FALSE]

\* An empty text matches no pattern.
Consistent(t) ==
    CountLines(t, LineLens) = 0 => ~t.invalid /\ t.strong = 0 /\ ~t.hangul

ImprovedTexts(maxRep) ==
    {t \in {[rep |-> r, invalid |-> b, strong |-> s, items |-> 0, hangul |-> FALSE] :
               r \in [LineLens -> 0..maxRep], b \in BOOLEAN, s \in StrongCounts} :
        Consistent(t)}

LegacyTexts(maxRep) ==
    {t \in {[rep |-> r, invalid |-> b, strong |-> 0, items |-> n, hangul |-> h] :
               r \in [LineLens -> 0..maxRep], b \in BOOLEAN, n \in ItemCounts,
               h \in BOOLEAN} :
        Consistent(t) /\ t.items <= CountLines(t, {l \in LineLens : l > 1})}

Texts(e, maxRep) == IF e = "improved" THEN ImprovedTexts(maxRep) ELSE LegacyTexts(maxRep)

\* ------------------------------------------------------------------------
\* Validators

\* lines = cleanText.split(/\n+/).filter(line => line.trim().length > 2)
StrictLines == {l \in LineLens : l > 2}

\* trimmed.length >= 5 && trimmed.length <= 100
TitleSized == {l \in LineLens : l >= 5 /\ l <= 100}

\* The last test of isValidTableOfContentsStrict: one strong pattern and a
\* good structure.
GoodStructure(t) ==
    LET lineCount == CountLines(t, StrictLines)
        validLineCount == CountLines(t, TitleSized \cap StrictLines)
        totalLength == TotalLength(t, StrictLines)
    IN  /\ t.strong >= 1
        /\ lineCount >= 5
        /\ validLineCount * 10 >= 7 * lineCount       \* validLineRatio >= 0.7
        /\ totalLength >= 10 * lineCount              \* avgLineLength >= 10
        /\ totalLength <= 60 * lineCount              \* avgLineLength <= 60

isValidTableOfContentsStrict_NoLengthBounds(t) ==
    IF TextLength(t) = 0 THEN FALSE
    ELSE IF t.invalid THEN FALSE
    ELSE IF CountLines(t, StrictLines) < 3 THEN FALSE
    ELSE IF t.strong >= 2 THEN TRUE
    ELSE GoodStructure(t)

isValidTableOfContentsStrict_StrongFirst(t) ==
    IF TextLength(t) = 0 \/ TextLength(t) < 20 \/ TextLength(t) > 8000 THEN FALSE
    ELSE IF CountLines(t, StrictLines) < 3 THEN FALSE
    ELSE IF t.strong >= 2 THEN TRUE
    ELSE IF t.invalid THEN FALSE
    ELSE GoodStructure(t)

isValidTableOfContentsStrict_ThreeLines(t) ==
    IF TextLength(t) = 0 \/ TextLength(t) < 20 \/ TextLength(t) > 8000 THEN FALSE
    ELSE IF t.invalid THEN FALSE
    ELSE IF CountLines(t, StrictLines) < 3 THEN FALSE
    ELSE IF t.strong >= 2 THEN TRUE
    ELSE /\ t.strong >= 1
         /\ TotalLength(t, StrictLines) >= 10 * CountLines(t, StrictLines)
         /\ TotalLength(t, StrictLines) <= 60 * CountLines(t, StrictLines)

isValidTableOfContentsStrict(t) ==
    IF TextLength(t) = 0 \/ TextLength(t) < 20 \/ TextLength(t) > 8000 THEN FALSE
    ELSE IF t.invalid THEN FALSE
    ELSE IF CountLines(t, StrictLines) < 3 THEN FALSE
    ELSE IF t.strong >= 2 THEN TRUE
    ELSE GoodStructure(t)

isValidTableOfContents(t) ==
    IF TextLength(t) = 0 \/ TextLength(t) < 10 \/ TextLength(t) > 10000 THEN FALSE
    ELSE IF t.invalid THEN FALSE
    ELSE t.items >= 3 /\ t.hangul

\* The validator of class e.
Validator(e, t) ==
    IF e = "improved" THEN isValidTableOfContentsStrict(t) ELSE isValidTableOfContents(t)

\* ------------------------------------------------------------------------
\* Confidence

Min(a, b) == IF a <= b THEN a ELSE b

Max(a, b) == IF a >= b THEN a ELSE b

\* methodWeights[method] || 0 (ImprovedTOCExtractor)
ImprovedMethodWeight(method) ==
    CASE method = "targeted-html" -> 30
      [] method = "direct-api-json" -> 25
      [] method = "enhanced-metadata" -> 20
      [] method = "direct-api-text" -> 15
      [] method = "limited-fallback" -> 10
      [] OTHER -> 0

\* methodWeights[method] || 0 (TOCExtractor)
LegacyMethodWeight(method) ==
    CASE method = "json-structured" -> 30
      [] method = "direct-api-json" -> 25
      [] method = "metadata" -> 20
      [] method = "enhanced-html" -> 15
      [] method = "multiple-urls" -> 10
      [] method = "search-results" -> 5
      [] OTHER -> 0

\* lines = toc.split('\n').filter(line => line.trim().length > 0)
NonEmptyLines == {l \in LineLens : l > 0}

\* ImprovedTOCExtractor.calculateConfidence before the final clamp; matched
\* is matchedPatterns.length.
ImprovedRawConfidence(t, matched, method) ==
    LET n == CountLines(t, NonEmptyLines)
        total == TotalLength(t, NonEmptyLines)
        lineBonus == IF n >= 15 THEN 25 ELSE IF n >= 8 THEN 15 ELSE IF n >= 5 THEN 10 ELSE 0
        avgBonus == IF n > 0 /\ total >= 15 * n /\ total <= 40 * n THEN 10 ELSE 0
        lengthBonus == IF TextLength(t) > 500 /\ TextLength(t) < 2000 THEN 10 ELSE 0
    IN  40 + lineBonus + matched * 8 + ImprovedMethodWeight(method) + avgBonus + lengthBonus

\* TOCExtractor.calculateConfidence before the final clamp.
LegacyRawConfidence(t, matched, method) ==
    LET n == CountLines(t, NonEmptyLines)
        lineBonus == IF n >= 10 THEN 20 ELSE IF n >= 5 THEN 10 ELSE 0
        lengthAdjust == IF TextLength(t) > 1000 THEN 10
                        ELSE IF TextLength(t) < 100 THEN 0 - 10 ELSE 0
    IN  50 + lineBonus + matched * 5 + LegacyMethodWeight(method) + lengthAdjust

ImprovedConfidence_NoUpperClamp(t, matched, method) ==
    Max(10, ImprovedRawConfidence(t, matched, method))

\* return Math.max(0.1, Math.min(1, confidence));
ImprovedConfidence(t, matched, method) ==
    Max(10, Min(100, ImprovedRawConfidence(t, matched, method)))

\* return Math.max(0, Math.min(1, confidence));
LegacyConfidence(t, matched, method) ==
    Max(0, Min(100, LegacyRawConfidence(t, matched, method)))

calculateConfidence(e, t, matched, method) ==
    IF e = "improved" THEN ImprovedConfidence(t, matched, method)
    ELSE LegacyConfidence(t, matched, method)

\* ------------------------------------------------------------------------
\* Strategies: from the response to the result.
\*
\* Inputs of one attempt: hasControlNo (book.controlNo is set), fetch (what
\* makeRequest did: "throws", "empty" for a response without text, "text"),
\* json (the body or matched block parsed as JSON), t (the candidate the
\* parsing helper produced, EmptyText for none) and matched (the number of
\* the scorer's patterns that t matches).

Fail(method, error) ==
    [success |-> FALSE, method |-> method, confidence |-> 0, content |-> EmptyText,
     error |-> error]

Success(method, confidence, content) ==
    [success |-> TRUE, method |-> method, confidence |-> confidence,
     content |-> content, error |-> ""]

\* `toc && ...`
Truthy(t) == TextLength(t) > 0

extractTOCFromJSON_Unchecked(e, t) == t

\* searchInObject: the parsed field is returned only if the validator accepts
\* it, otherwise null.
extractTOCFromJSON(e, t) == IF Truthy(t) /\ Validator(e, t) THEN t ELSE EmptyText

\* The parsed block is returned only if the validator accepts it, otherwise ''.
extractTOCFromDetailPageHTML(e, t) == IF Truthy(t) /\ Validator(e, t) THEN t ELSE EmptyText

\* --- ImprovedTOCExtractor

extractFromTargetedHTML(hasControlNo, fetch, json, t, matched) ==
    IF ~hasControlNo THEN Fail("TargetedHTML", "NeedsControlNo")
    ELSE IF fetch = "throws" THEN Fail("TargetedHTML", "Error")
    ELSE IF fetch = "empty" THEN Fail("TargetedHTML", "EmptyResponse")
    ELSE IF Truthy(t) /\ isValidTableOfContentsStrict(t)
         THEN Success("TargetedHTML", ImprovedConfidence(t, matched, "targeted-html"), t)
    ELSE Fail("TargetedHTML", "NotFound")

ImprovedExtractFromDirectAPI(hasControlNo, fetch, json, t, matched) ==
    IF ~hasControlNo THEN Fail("DirectAPI", "NeedsControlNo")
    ELSE IF fetch # "text" THEN Fail("DirectAPI", "NotFound")
    ELSE IF json
         THEN LET toc == extractTOCFromJSON("improved", t)
              IN  IF Truthy(toc) /\ isValidTableOfContentsStrict(toc)
                  THEN Success("DirectAPI",
                               ImprovedConfidence(toc, matched, "direct-api-json"), toc)
                  ELSE Fail("DirectAPI", "NotFound")
    ELSE IF Truthy(t) /\ isValidTableOfContentsStrict(t)
         THEN Success("DirectAPI", ImprovedConfidence(t, matched, "direct-api-text"), t)
    ELSE Fail("DirectAPI", "NotFound")

extractFromEnhancedMetadata(hasControlNo, fetch, json, t, matched) ==
    IF ~hasControlNo THEN Fail("EnhancedMetadata", "NeedsControlNo")
    ELSE IF fetch = "throws" THEN Fail("EnhancedMetadata", "Error")
    ELSE IF fetch = "empty" THEN Fail("EnhancedMetadata", "EmptyResponse")
    ELSE LET content == IF json THEN extractTOCFromJSON("improved", t) ELSE t
         IN  IF Truthy(content) /\ isValidTableOfContentsStrict(content)
             THEN Success("EnhancedMetadata",
                          ImprovedConfidence(content, matched, "enhanced-metadata"),
                          content)
             ELSE Fail("EnhancedMetadata", "NotFound")

extractFromLimitedFallback(hasControlNo, fetch, json, t, matched) ==
    IF ~hasControlNo THEN Fail("LimitedFallback", "NeedsControlNo")
    ELSE IF fetch # "text" THEN Fail("LimitedFallback", "NotFound")
    ELSE LET toc == extractTOCFromDetailPageHTML("improved", t)
         IN  IF Truthy(toc) /\ isValidTableOfContentsStrict(toc)
             THEN Success("LimitedFallback",
                          ImprovedConfidence(toc, matched, "limited-fallback"), toc)
             ELSE Fail("LimitedFallback", "NotFound")

\* --- TOCExtractor

extractFromJSONLD(hasControlNo, fetch, json, t, matched) ==
    IF ~hasControlNo THEN Fail("JSON-LD", "NeedsControlNo")
    ELSE IF fetch = "throws" THEN Fail("JSON-LD", "Error")
    ELSE IF fetch = "empty" THEN Fail("JSON-LD", "EmptyResponse")
    ELSE LET toc == extractTOCFromJSON("legacy", t)
             confidence == LegacyConfidence(toc, matched, "json-structured")
         IN  IF json /\ Truthy(toc) /\ confidence > 50
             THEN Success("JSON-LD", confidence, toc)
             ELSE Fail("JSON-LD", "NotFound")

extractFromMetadata(hasControlNo, fetch, json, t, matched) ==
    IF ~hasControlNo THEN Fail("Metadata", "NeedsControlNo")
    ELSE IF fetch = "throws" THEN Fail("Metadata", "Error")
    ELSE IF fetch = "empty" THEN Fail("Metadata", "EmptyResponse")
    ELSE IF Truthy(t) /\ isValidTableOfContents(t)
         THEN Success("Metadata", LegacyConfidence(t, matched, "metadata"), t)
    ELSE Fail("Metadata", "NotFound")

LegacyExtractFromDirectAPI(hasControlNo, fetch, json, t, matched) ==
    IF ~hasControlNo THEN Fail("DirectAPI", "NeedsControlNo")
    ELSE IF fetch # "text" THEN Fail("DirectAPI", "NotFound")
    ELSE IF json
         THEN LET toc == extractTOCFromJSON("legacy", t)
              IN  IF Truthy(toc)
                  THEN Success("DirectAPI",
                               LegacyConfidence(toc, matched, "direct-api-json"), toc)
                  ELSE Fail("DirectAPI", "NotFound")
    ELSE IF Truthy(t) /\ isValidTableOfContents(t)
         THEN Success("DirectAPI", LegacyConfidence(t, matched, "direct-api-text"), t)
    ELSE Fail("DirectAPI", "NotFound")

\* No controlNo is needed; the response must parse as JSON.
extractFromSearchResults(hasControlNo, fetch, json, t, matched) ==
    IF fetch = "throws" THEN Fail("SearchResults", "Error")
    ELSE IF fetch = "empty" THEN Fail("SearchResults", "EmptyResponse")
    ELSE IF ~json THEN Fail("SearchResults", "JsonParse")
    ELSE IF Truthy(t) /\ isValidTableOfContents(t)
         THEN Success("SearchResults", LegacyConfidence(t, matched, "search-results"), t)
    ELSE Fail("SearchResults", "NotFound")

extractFromMultipleURLPatterns(hasControlNo, fetch, json, t, matched) ==
    IF ~hasControlNo THEN Fail("MultipleURLs", "NeedsControlNo")
    ELSE IF fetch # "text" THEN Fail("MultipleURLs", "NotFound")
    ELSE LET toc == extractTOCFromDetailPageHTML("legacy", t)
         IN  IF Truthy(toc) /\ isValidTableOfContents(toc)
             THEN Success("MultipleURLs",
                          LegacyConfidence(toc, matched, "multiple-urls"), toc)
             ELSE Fail("MultipleURLs", "NotFound")

\* enhancedHTMLParsing returns a block its own validation accepted, or ''.
extractFromEnhancedHTML(hasControlNo, fetch, json, t, matched) ==
    IF ~hasControlNo THEN Fail("EnhancedHTML", "NeedsControlNo")
    ELSE IF fetch = "throws" THEN Fail("EnhancedHTML", "Error")
    ELSE IF fetch = "empty" THEN Fail("EnhancedHTML", "EmptyResponse")
    ELSE LET toc == extractTOCFromDetailPageHTML("legacy", t)
         IN  IF Truthy(toc) /\ isValidTableOfContents(toc)
             THEN Success("EnhancedHTML",
                          LegacyConfidence(toc, matched, "enhanced-html"), toc)
             ELSE Fail("EnhancedHTML", "NotFound")

\* methods[k]() of class e.
RunStrategy(e, k, hasControlNo, fetch, json, t, matched) ==
    IF e = "improved"
    THEN CASE k = 1 -> extractFromTargetedHTML(hasControlNo, fetch, json, t, matched)
           [] k = 2 -> ImprovedExtractFromDirectAPI(hasControlNo, fetch, json, t, matched)
           [] k = 3 -> extractFromEnhancedMetadata(hasControlNo, fetch, json, t, matched)
           [] k = 4 -> extractFromLimitedFallback(hasControlNo, fetch, json, t, matched)
    ELSE CASE k = 1 -> extractFromJSONLD(hasControlNo, fetch, json, t, matched)
           [] k = 2 -> extractFromMetadata(hasControlNo, fetch, json, t, matched)
           [] k = 3 -> LegacyExtractFromDirectAPI(hasControlNo, fetch, json, t, matched)
           [] k = 4 -> extractFromSearchResults(hasControlNo, fetch, json, t, matched)
           [] k = 5 -> extractFromMultipleURLPatterns(hasControlNo, fetch, json, t, matched)
           [] k = 6 -> extractFromEnhancedHTML(hasControlNo, fetch, json, t, matched)

\* ------------------------------------------------------------------------
\* Part 3: MultiSiteScraper.scrapeTOC and SimpleCache (scraper/multi-site-scraper.ts)
\*
\* Time is counted in days.  A text a scraper returns is known to scrapeTOC
\* only through its length and the tests of calculateConfidence; it is
\* modelled by
\*   len     toc.length
\*   flags   the pattern tests of calculateConfidence that succeed
\*   lines   the number of lines that are not blank
\*   dotty   whether '...' occurs more than 10 times

\* The last value of the clock.
MaxNow == 8

\* CACHE_DURATION = 7 * 24 * 60 * 60 * 1000 ms
CacheDuration == 7

\* How far the clock moves in one step.
TickSteps == {CacheDuration, CacheDuration + 1}

\* this.scrapers, in the order of the constructor.
ScraperNames == <<"Kyobo", "Aladin", "Yes24">>

Providers == 1..Len(ScraperNames)

Isbns == {"", "isbn-1"}

Titles == {"title-1"}

\* return isbn || title || 'unknown';
getCacheKey(isbn, title) ==
    IF isbn # "" THEN isbn ELSE IF title # "" THEN title ELSE "unknown"

CacheKeys == {getCacheKey(isbn, title) : isbn \in Isbns, title \in Titles}

NoEntry == [none |-> TRUE]

NoRead == [none |-> TRUE]

\* null
Null == [null |-> TRUE]

\* The score each successful pattern test of calculateConfidence adds.
FlagScore ==
    [korean |-> 20, chapter1 |-> 15, english |-> 15, chapterNum |-> 10,
     numbered |-> 10, ranged |-> 5, page |-> 10, jjok |-> 8, bullet |-> 5]

AllFlags == DOMAIN FlagScore

\* The texts a provider may return (two providers may return the same text):
\* one below the length floor, and three above it (a short repetitive one, a
\* plain one, a long well-formed one).
ProviderTexts ==
    {[len |-> 30, flags |-> {}, lines |-> 1, dotty |-> FALSE],
     [len |-> 60, flags |-> {}, lines |-> 1, dotty |-> TRUE],
     [len |-> 150, flags |-> {"korean"}, lines |-> 6, dotty |-> FALSE],
     [len |-> 1200, flags |-> AllFlags, lines |-> 11, dotty |-> FALSE]}

\* The states of a provider's task before it settles, and a scraper that threw.
NotInvoked == [task |-> "NotInvoked"]

Pending == [task |-> "Pending"]

Hung == [task |-> "Hung"]

Threw == [task |-> "Threw"]

\* What scraper.scrape of provider p can do once its request completes.
ScrapeOutcomes(p) == {Threw} \cup ProviderTexts

RECURSIVE SumFlags(_)
SumFlags(F) ==
    IF F = {} THEN 0
    ELSE LET f == CHOOSE x \in F : TRUE IN FlagScore[f] + SumFlags(F \ {f})

\* MultiSiteScraper.calculateConfidence before the final clamp.
ScraperRawScore(toc) ==
    10 + SumFlags(toc.flags)
       + (IF toc.len > 200 THEN 15 ELSE 0)
       + (IF toc.len > 500 THEN 10 ELSE 0)
       + (IF toc.len > 1000 THEN 5 ELSE 0)
       + (IF toc.lines > 5 THEN 10 ELSE 0)
       + (IF toc.lines > 10 THEN 5 ELSE 0)
       - (IF toc.dotty THEN 10 ELSE 0)
       - (IF toc.len < 100 THEN 20 ELSE 0)

ScraperConfidence_NoUpperClamp(toc) == Max(0, ScraperRawScore(toc))

\* return Math.max(0, Math.min(score, 100));
ScraperConfidence(toc) == Max(0, Min(ScraperRawScore(toc), 100))

\* --- SimpleCache

IsExpired_Never(entry, t) == FALSE

\* Date.now() - cached.timestamp > this.CACHE_DURATION
IsExpired(entry, t) == t - entry.timestamp > CacheDuration

\* The value SimpleCache.get(key) returns at time t.
SimpleCacheGet(c, key, t) ==
    IF c[key] = NoEntry THEN Null
    ELSE IF IsExpired(c[key], t) THEN Null
    ELSE c[key].toc

SimpleCacheAfterGet_KeepsExpired(c, key, t) == c

\* The map after SimpleCache.get(key) at time t: an expired entry is deleted.
SimpleCacheAfterGet(c, key, t) ==
    IF c[key] # NoEntry /\ IsExpired(c[key], t) THEN [c EXCEPT ![key] = NoEntry] ELSE c

\* SimpleCache.set(key, toc) at time t.
SimpleCacheSet(c, key, toc, t) == [c EXCEPT ![key] = [toc |-> toc, timestamp |-> t]]

\* --- scrapeTOC

\* `if (cached)`, `toc && ...`
ScrapeTruthy(v) == v # Null /\ v.len > 0

\* What the task of a provider resolves to, given what its scraper did.
TaskValue(p, o) ==
    IF o = Threw THEN Null
    ELSE IF ScrapeTruthy(o) /\ o.len > 50
         THEN [source |-> ScraperNames[p], toc |-> o, confidence |-> ScraperConfidence(o)]
    ELSE Null

Settled(o) == o \notin {NotInvoked, Pending, Hung}

ReadyToRank_FirstSuccess(sc) ==
    \E p \in Providers : Settled(sc[p]) /\ TaskValue(p, sc[p]) # Null

\* await Promise.allSettled(scrapingPromises)
ReadyToRank(sc) == \A p \in Providers : Settled(sc[p])

\* results: the values of the fulfilled tasks that are not null, in the order
\* of this.scrapers.
RECURSIVE CollectResults(_, _)
CollectResults(sc, n) ==
    IF n = 0 THEN << >>
    ELSE LET rest == CollectResults(sc, n - 1)
         IN  IF Settled(sc[n]) /\ TaskValue(n, sc[n]) # Null
             THEN Append(rest, TaskValue(n, sc[n]))
             ELSE rest

RECURSIVE InsertByConfidence_BeforeEquals(_, _)
InsertByConfidence_BeforeEquals(r, sorted) ==
    IF sorted = << >> THEN <<r>>
    ELSE IF Head(sorted).confidence > r.confidence
         THEN <<Head(sorted)>> \o InsertByConfidence_BeforeEquals(r, Tail(sorted))
    ELSE <<r>> \o sorted

\* One insertion of the stable sort by (a, b) => b.confidence - a.confidence:
\* r goes behind the elements that are not less confident.
RECURSIVE InsertByConfidence(_, _)
InsertByConfidence(r, sorted) ==
    IF sorted = << >> THEN <<r>>
    ELSE IF Head(sorted).confidence >= r.confidence
         THEN <<Head(sorted)>> \o InsertByConfidence(r, Tail(sorted))
    ELSE <<r>> \o sorted

\* results.sort((a, b) => b.confidence - a.confidence)
RECURSIVE SortByConfidence(_, _)
SortByConfidence(results, n) ==
    IF n = 0 THEN << >>
    ELSE InsertByConfidence(results[n], SortByConfidence(results, n - 1))

AllProviders(v) == [p \in Providers |-> v]

\* scrapeTOC(isbn, title) is called: the cache is read, and on a miss one task
\* per scraper is started.
ScrapeCall ==
    /\ sPc = "idle"
    /\ \E isbn \in Isbns, title \in Titles :
         LET cacheKey == getCacheKey(isbn, title)
             cached == SimpleCacheGet(cache, cacheKey, now)
         IN  /\ sKey' = cacheKey
             /\ sStart' = now
             /\ prior' = lastSet[cacheKey]
             /\ cache' = SimpleCacheAfterGet(cache, cacheKey, now)
             /\ firstSettled' = 0
             /\ IF ScrapeTruthy(cached)
                THEN /\ sReturned' = [source |-> "Cache", toc |-> cached, confidence |-> 100]
                     /\ sPc' = "done"
                     /\ scraped' = AllProviders(NotInvoked)
                ELSE /\ sReturned' = NoResult
                     /\ sPc' = "running"
                     /\ scraped' = AllProviders(Pending)
    /\ UNCHANGED <<now, lastSet, cacheRead>>
    /\ UNCHANGED <<orchVars, textVars, monVars, laterVars>>

\* The request of provider p completes and its task settles.
TaskSettles(p) ==
    /\ sPc = "running"
    /\ scraped[p] = Pending
    /\ \E o \in ScrapeOutcomes(p) : scraped' = [scraped EXCEPT ![p] = o]
    /\ firstSettled' = IF firstSettled = 0 THEN p ELSE firstSettled
    /\ UNCHANGED <<now, cache, sPc, sKey, sStart, sReturned, prior, lastSet, cacheRead>>
    /\ UNCHANGED <<orchVars, textVars, monVars, laterVars>>

\* The remote end of provider p's request stops answering: fetch is given no
\* timeout and no abort signal, so the task stays pending.
TaskHangs(p) ==
    /\ sPc = "running"
    /\ scraped[p] = Pending
    /\ scraped' = [scraped EXCEPT ![p] = Hung]
    /\ UNCHANGED <<now, cache, sPc, sKey, sStart, firstSettled, sReturned, prior, lastSet,
                   cacheRead>>
    /\ UNCHANGED <<orchVars, textVars, monVars, laterVars>>

CacheAfterRank_StoresFailure(c, key, results, t) ==
    IF results = << >>
    THEN SimpleCacheSet(c, key, Null, t)
    ELSE SimpleCacheSet(c, key, Head(SortByConfidence(results, Len(results))).toc, t)

\* `if (results.length === 0) return null;` stands before
\* `this.cache.set(cacheKey, bestResult.toc)`.
CacheAfterRank(c, key, results, t) ==
    IF results = << >>
    THEN c
    ELSE SimpleCacheSet(c, key, Head(SortByConfidence(results, Len(results))).toc, t)

\* After Promise.allSettled: collect, rank, store, return.
Rank ==
    /\ sPc = "running"
    /\ ReadyToRank(scraped)
    /\ LET results == CollectResults(scraped, Len(ScraperNames))
           bestResult_ == Head(SortByConfidence(results, Len(results)))
       IN  /\ cache' = CacheAfterRank(cache, sKey, results, now)
           /\ IF results = << >>
              THEN /\ sReturned' = Null
                   /\ UNCHANGED lastSet
              ELSE /\ sReturned' = bestResult_
                   /\ lastSet' = [lastSet EXCEPT ![sKey] = [toc |-> bestResult_.toc,
                                                            timestamp |-> now]]
    /\ sPc' = "done"
    /\ UNCHANGED <<now, sKey, sStart, scraped, firstSettled, prior, cacheRead>>
    /\ UNCHANGED <<orchVars, textVars, monVars, laterVars>>

\* The caller receives the result.
ScrapeFinish ==
    /\ sPc = "done"
    /\ sPc' = "idle"
    /\ sKey' = ""
    /\ sStart' = 0
    /\ scraped' = AllProviders(NotInvoked)
    /\ firstSettled' = 0
    /\ sReturned' = NoResult
    /\ prior' = NoEntry
    /\ UNCHANGED <<now, cache, lastSet, cacheRead>>
    /\ UNCHANGED <<orchVars, textVars, monVars, laterVars>>

\* Time passes.
Tick ==
    /\ \E d \in TickSteps : now + d <= MaxNow /\ now' = now + d
    /\ UNCHANGED <<cache, sPc, sKey, sStart, scraped, firstSettled, sReturned, prior,
                   lastSet, cacheRead>>
    /\ UNCHANGED <<orchVars, textVars, monVars, laterVars>>

ProviderSettles == \E p \in Providers : TaskSettles(p)

ProviderHangs == \E p \in Providers : TaskHangs(p)

ScrapeNext == ScrapeCall \/ ProviderSettles \/ ProviderHangs \/ Rank \/ ScrapeFinish \/ Tick

\* --- SimpleCache used on its own

\* cache.get(key)
CacheGet ==
    /\ sPc = "idle"
    /\ \E key \in CacheKeys :
         /\ cacheRead' = [key |-> key, value |-> SimpleCacheGet(cache, key, now), at |-> now]
         /\ cache' = SimpleCacheAfterGet(cache, key, now)
    /\ UNCHANGED <<now, sPc, sKey, sStart, scraped, firstSettled, sReturned, prior, lastSet>>
    /\ UNCHANGED <<orchVars, textVars, monVars, laterVars>>

\* cache.set(key, toc)
CacheSet ==
    /\ sPc = "idle"
    /\ \E key \in CacheKeys, toc \in ProviderTexts :
         /\ cache' = SimpleCacheSet(cache, key, toc, now)
         /\ lastSet' = [lastSet EXCEPT ![key] = [toc |-> toc, timestamp |-> now]]
    /\ cacheRead' = NoRead
    /\ UNCHANGED <<now, sPc, sKey, sStart, scraped, firstSettled, sReturned, prior>>
    /\ UNCHANGED <<orchVars, textVars, monVars, laterVars>>

\* cache.clear()
CacheClear ==
    /\ sPc = "idle"
    /\ cache' = [k \in CacheKeys |-> NoEntry]
    /\ lastSet' = [k \in CacheKeys |-> NoEntry]
    /\ cacheRead' = NoRead
    /\ UNCHANGED <<now, sPc, sKey, sStart, scraped, firstSettled, sReturned, prior>>
    /\ UNCHANGED <<orchVars, textVars, monVars, laterVars>>

CacheNext == CacheGet \/ CacheSet \/ CacheClear \/ Tick

\* Part 3 at rest.
ScrapeIdle ==
    /\ now = 0
    /\ cache = [k \in CacheKeys |-> NoEntry]
    /\ sPc = "idle"
    /\ sKey = ""
    /\ sStart = 0
    /\ scraped = AllProviders(NotInvoked)
    /\ firstSettled = 0
    /\ sReturned = NoResult
    /\ prior = NoEntry
    /\ lastSet = [k \in CacheKeys |-> NoEntry]
    /\ cacheRead = NoRead

\* ------------------------------------------------------------------------
\* Part 4: TOCPerformanceMonitor
\*
\* Confidences are held in hundredths and response times in milliseconds.
\* The two running averages are held in units of 1/AvgScale, which makes the
\* division of the incremental update exact for every number of successes
\* the model reaches.  A Date is [date |-> t]; the ISO string JSON.stringify
\* writes for it is [iso |-> t].

\* `private readonly maxRecentResults = 100`
maxRecentResults == 100

\* `.filter(stats => stats.attempts >= 3)`
MinAttempts == 3

\* Number of recordResult calls whose arguments are chosen one by one.
MaxRecords == 3

\* Length of a run of identical recordResult calls (a caller's loop), chosen
\* so that the calls that follow fill recentResults past its limit.
BatchSize == maxRecentResults - 2

RECURSIVE Factorial(_)
Factorial(n) == IF n <= 1 THEN 1 ELSE n * Factorial(n - 1)

AvgScale == Factorial(MaxRecords)

Books == {"book-1"}

MonitorMethods == {"TargetedHTML", "DirectAPI"}

SuccessConfidences == {40, 60, 90}

ResponseTimes == {20}

\* The arguments (success, confidence, responseTime) of one recordResult call:
\* a failed extraction reports confidence 0.
RecordArgs ==
    {[success |-> TRUE, confidence |-> c, responseTime |-> rt] :
        c \in SuccessConfidences, rt \in ResponseTimes}
      \cup {[success |-> FALSE, confidence |-> 0, responseTime |-> 10]}

Date(t) == [date |-> t]

\* resetMetrics()
FreshMetrics ==
    [totalAttempts |-> 0,
     totalSuccesses |-> 0,
     totalResponseTime |-> 0,
     methodBreakdown |-> << >>,
     confidenceDistribution |-> [high |-> 0, medium |-> 0, low |-> 0],
     recentResults |-> << >>]

\* methodBreakdown is an object keyed by method name; the model holds its
\* entries in insertion order (the order Object.entries yields).
MethodIndex(breakdown, method) ==
    IF \E k \in 1..Len(breakdown) : breakdown[k].method = method
    THEN CHOOSE k \in 1..Len(breakdown) : breakdown[k].method = method
    ELSE 0

NewMethodStats(method, t) ==
    [method |-> method, attempts |-> 0, successes |-> 0, avgResponseTime |-> 0,
     avgConfidence |-> 0, lastUsed |-> Date(t)]

\* `(avg * (successes - 1) + x) / successes`
UpdateAverage(avg, successes, x) ==
    (avg * (successes - 1) + x * AvgScale) \div successes

UpdateMethodStats_FailureClearsSuccesses(stats, success, confidence, responseTime, t) ==
    LET attempted == [stats EXCEPT !.attempts = @ + 1, !.lastUsed = Date(t)]
        n == stats.successes + 1
    IN  IF success
        THEN [attempted EXCEPT
                !.successes = n,
                !.avgResponseTime = UpdateAverage(@, n, responseTime),
                !.avgConfidence = UpdateAverage(@, n, confidence)]
        ELSE [attempted EXCEPT !.successes = 0]

UpdateMethodStats_FailureNotCounted(stats, success, confidence, responseTime, t) ==
    LET n == stats.successes + 1
    IN  IF success
        THEN [stats EXCEPT
                !.attempts = @ + 1,
                !.lastUsed = Date(t),
                !.successes = n,
                !.avgResponseTime = UpdateAverage(@, n, responseTime),
                !.avgConfidence = UpdateAverage(@, n, confidence)]
        ELSE stats

\* `methodStats.attempts++; methodStats.lastUsed = new Date(); if (success) {...}`
UpdateMethodStats(stats, success, confidence, responseTime, t) ==
    LET attempted == [stats EXCEPT !.attempts = @ + 1, !.lastUsed = Date(t)]
        n == stats.successes + 1
    IN  IF success
        THEN [attempted EXCEPT
                !.successes = n,
                !.avgResponseTime = UpdateAverage(@, n, responseTime),
                !.avgConfidence = UpdateAverage(@, n, confidence)]
        ELSE attempted

UpdateDistribution_SkipsMedium(dist, confidence) ==
    IF confidence >= 80 THEN [dist EXCEPT !.high = @ + 1]
    ELSE IF confidence >= 50 THEN dist
    ELSE [dist EXCEPT !.low = @ + 1]

\* `if (confidence >= 0.8) high++ else if (confidence >= 0.5) medium++ else low++`
UpdateDistribution(dist, confidence) ==
    IF confidence >= 80 THEN [dist EXCEPT !.high = @ + 1]
    ELSE IF confidence >= 50 THEN [dist EXCEPT !.medium = @ + 1]
    ELSE [dist EXCEPT !.low = @ + 1]

RecentEntry(bookTitle, method, success, confidence, responseTime, t) ==
    [timestamp |-> Date(t), book |-> bookTitle, method |-> method,
     success |-> success, confidence |-> confidence, responseTime |-> responseTime]

LimitRecent_DropsNewest(recent) ==
    IF Len(recent) > maxRecentResults THEN SubSeq(recent, 1, Len(recent) - 1) ELSE recent

\* `if (recentResults.length > this.maxRecentResults) recentResults.shift()`
LimitRecent(recent) ==
    IF Len(recent) > maxRecentResults THEN Tail(recent) ELSE recent

\* recordResult(bookTitle, method, success, confidence, responseTime) at time t.
recordResult(m, bookTitle, method, success, confidence, responseTime, t) ==
    LET known == MethodIndex(m.methodBreakdown, method)
        breakdown == IF known = 0
                     THEN Append(m.methodBreakdown, NewMethodStats(method, t))
                     ELSE m.methodBreakdown
        k == MethodIndex(breakdown, method)
    IN  [totalAttempts |-> m.totalAttempts + 1,
         totalSuccesses |-> IF success THEN m.totalSuccesses + 1 ELSE m.totalSuccesses,
         totalResponseTime |-> m.totalResponseTime + responseTime,
         methodBreakdown |->
             [breakdown EXCEPT
                 ![k] = UpdateMethodStats(@, success, confidence, responseTime, t)],
         confidenceDistribution |->
             IF success THEN UpdateDistribution(m.confidenceDistribution, confidence)
             ELSE m.confidenceDistribution,
         recentResults |->
             LimitRecent(Append(m.recentResults,
                 RecentEntry(bookTitle, method, success, confidence, responseTime, t)))]

\* n recordResult calls with the same arguments: the first half of them,
\* then the rest.
RECURSIVE RecordMany(_, _, _, _, _, _)
RecordMany(m, n, bookTitle, method, args, t) ==
    IF n = 0 THEN m
    ELSE IF n = 1
    THEN recordResult(m, bookTitle, method, args.success, args.confidence,
                      args.responseTime, t)
    ELSE CHOOSE after \in
             {RecordMany(firstHalf, n - (n \div 2), bookTitle, method, args, t) :
                 firstHalf \in {RecordMany(m, n \div 2, bookTitle, method, args, t)}} :
             TRUE

\* successRate = successes / attempts, compared without dividing.
RateGreater(a, b) == a.successes * b.attempts > b.successes * a.attempts

\* `.sort((a, b) => b.successRate - a.successRate)`: descending and stable, so
\* entry k goes after the entries with a higher rate and the earlier entries
\* with the same rate.
SortBySuccessRate(seq) ==
    LET n == Len(seq)
        Position(k) == Cardinality({j \in 1..n :
                           \/ RateGreater(seq[j], seq[k])
                           \/ (~RateGreater(seq[k], seq[j]) /\ j < k)})
    IN  [p \in 1..n |-> seq[CHOOSE k \in 1..n : Position(k) = p - 1]]

\* getMethodSuccessRates(): the entries, the higher success rate first.  An
\* entry exists only once it has an attempt, so `attempts > 0` holds.
getMethodSuccessRates(m) == SortBySuccessRate(m.methodBreakdown)

\* compositeScore = successRate * 0.7 + avgConfidence * 0.3, multiplied by
\* 1000 * AvgScale * attempts.
CompositeTimesAttempts(stats) ==
    700 * AvgScale * stats.successes + 3 * stats.avgConfidence * stats.attempts

CompositeGreater(a, b) ==
    CompositeTimesAttempts(a) * b.attempts > CompositeTimesAttempts(b) * a.attempts

\* `.sort((a, b) => b.compositeScore - a.compositeScore)`
SortByCompositeScore(seq) ==
    LET n == Len(seq)
        Position(k) == Cardinality({j \in 1..n :
                           \/ CompositeGreater(seq[j], seq[k])
                           \/ (~CompositeGreater(seq[k], seq[j]) /\ j < k)})
    IN  [p \in 1..n |-> seq[CHOOSE k \in 1..n : Position(k) = p - 1]]

HasEnoughAttempts(stats) == stats.attempts >= MinAttempts

Recommended(method) == [method |-> method]

\* getBestMethod()
getBestMethod(m) ==
    LET rates == getMethodSuccessRates(m)
        scoredMethods == SortByCompositeScore(SelectSeq(rates, HasEnoughAttempts))
    IN  IF Len(rates) = 0 THEN Null
        ELSE IF Len(scoredMethods) > 0 THEN Recommended(scoredMethods[1].method)
        ELSE Recommended(rates[1].method)

\* Date.prototype.toJSON, which JSON.stringify calls: the ISO string.
DateToJSON(d) == [iso |-> d.date]

RestoreDate_KeepsString(s) == s

\* `new Date(isoString)`
RestoreDate(s) == [date |-> s.iso]

\* A JSON text is held as the tree it denotes; JSON.parse throws on NotJson.
NotJson == [invalid |-> TRUE]

JsonWithoutTotals == [tree |-> [recentResults |-> << >>]]

\* exportMetrics(): JSON.stringify(this.metrics, null, 2)
exportMetrics(m) ==
    LET breakdown == m.methodBreakdown
        recent == m.recentResults
    IN  [tree |->
            [m EXCEPT
                !.methodBreakdown =
                    [k \in 1..Len(breakdown) |->
                        [breakdown[k] EXCEPT !.lastUsed = DateToJSON(@)]],
                !.recentResults =
                    [k \in 1..Len(recent) |->
                        [recent[k] EXCEPT !.timestamp = DateToJSON(@)]]]]

\* importMetrics(jsonData): [ok, metrics], where ok is the returned boolean.
importMetrics(m, jsonData) ==
    IF "tree" \notin DOMAIN jsonData
    THEN [ok |-> FALSE, metrics |-> m]
    ELSE LET imported == jsonData.tree
         IN  IF {"totalAttempts", "totalSuccesses"} \subseteq DOMAIN imported
             THEN LET recent == imported.recentResults
                      breakdown == imported.methodBreakdown
                  IN  [ok |-> TRUE,
                       metrics |->
                          [imported EXCEPT
                              !.recentResults =
                                  [k \in 1..Len(recent) |->
                                      [recent[k] EXCEPT !.timestamp = RestoreDate(@)]],
                              !.methodBreakdown =
                                  [k \in 1..Len(breakdown) |->
                                      [breakdown[k] EXCEPT !.lastUsed = RestoreDate(@)]]]]
             ELSE [ok |-> FALSE, metrics |-> m]

NoCall == [op |-> "none"]

HistoryEntry(bookTitle, method, args, t) ==
    [book |-> bookTitle, method |-> method, success |-> args.success,
     confidence |-> args.confidence, responseTime |-> args.responseTime, at |-> t]

NoSnapshot == [none |-> TRUE]

Shared == [shared |-> TRUE]

NestedOf(m) ==
    [methodBreakdown |-> m.methodBreakdown,
     confidenceDistribution |-> m.confidenceDistribution,
     recentResults |-> m.recentResults]

\* `{ ...this.metrics }`: a new object whose number properties are copies and
\* whose object properties are the same objects this.metrics refers to.
SpreadCopy(m) ==
    [own |-> [totalAttempts |-> m.totalAttempts,
              totalSuccesses |-> m.totalSuccesses,
              totalResponseTime |-> m.totalResponseTime],
     nested |-> Shared]

\* `this.metrics = ...` installs a new object with new nested objects: the
\* object getMetrics returned keeps the old nested objects, as they are now.
Detach(snap, m) ==
    IF snap # NoSnapshot /\ snap.nested = Shared
    THEN [snap EXCEPT !.nested = NestedOf(m)]
    ELSE snap

\* What reading the object getMetrics returned yields now.
SnapshotValue ==
    LET nested == IF snapshot.nested = Shared THEN NestedOf(metrics)
                  ELSE snapshot.nested
    IN  [totalAttempts |-> snapshot.own.totalAttempts,
         totalSuccesses |-> snapshot.own.totalSuccesses,
         totalResponseTime |-> snapshot.own.totalResponseTime,
         methodBreakdown |-> nested.methodBreakdown,
         confidenceDistribution |-> nested.confidenceDistribution,
         recentResults |-> nested.recentResults]

\* One recordResult call; the clock has advanced since the previous one.
RecordResult ==
    /\ mNow < MaxRecords
    /\ mNow' = mNow + 1
    /\ \E bookTitle \in Books, method \in MonitorMethods, args \in RecordArgs :
         /\ metrics' = recordResult(metrics, bookTitle, method, args.success,
                                    args.confidence, args.responseTime, mNow')
         /\ history' = Append(history, HistoryEntry(bookTitle, method, args, mNow'))
    /\ lastCall' = NoCall
    /\ UNCHANGED <<orchVars, textVars, scrapeVars, snapVars, laterVars>>

\* A caller records BatchSize failed attempts of one method in a row, within
\* one millisecond, on a monitor that holds nothing yet.
RecordBatch ==
    /\ Len(history) = 0
    /\ \E bookTitle \in Books, method \in MonitorMethods :
         LET args == [success |-> FALSE, confidence |-> 0, responseTime |-> 10]
         IN  /\ metrics' = RecordMany(metrics, BatchSize, bookTitle, method, args, mNow)
             /\ history' = [k \in 1..BatchSize |->
                               HistoryEntry(bookTitle, method, args, mNow)]
    /\ lastCall' = NoCall
    /\ UNCHANGED mNow
    /\ UNCHANGED <<orchVars, textVars, scrapeVars, snapVars, laterVars>>

\* reset()
MonitorReset ==
    /\ Len(history) > 0
    /\ metrics' = FreshMetrics
    /\ history' = << >>
    /\ lastCall' = NoCall
    /\ UNCHANGED mNow
    /\ snapshot' = Detach(snapshot, metrics)
    /\ UNCHANGED snapshotTaken
    /\ UNCHANGED <<orchVars, textVars, scrapeVars, laterVars>>

GetBestMethod ==
    /\ lastCall' = [op |-> "getBestMethod", value |-> getBestMethod(metrics)]
    /\ UNCHANGED <<metrics, mNow, history>>
    /\ UNCHANGED <<orchVars, textVars, scrapeVars, snapVars, laterVars>>

ExportMetrics ==
    /\ lastCall' = [op |-> "exportMetrics", value |-> exportMetrics(metrics)]
    /\ UNCHANGED <<metrics, mNow, history>>
    /\ UNCHANGED <<orchVars, textVars, scrapeVars, snapVars, laterVars>>

\* importMetrics is given the text exportMetrics has just returned, a text
\* that is not JSON, or a JSON object without the totals.
ImportInputs ==
    (IF lastCall.op = "exportMetrics" THEN {lastCall.value} ELSE {})
      \cup {NotJson, JsonWithoutTotals}

ImportMetrics ==
    /\ \E jsonData \in ImportInputs :
         LET r == importMetrics(metrics, jsonData)
         IN  /\ metrics' = r.metrics
             /\ lastCall' = [op |-> "importMetrics", data |-> jsonData, ok |-> r.ok,
                             before |-> metrics]
             /\ snapshot' = IF r.ok THEN Detach(snapshot, metrics) ELSE snapshot
    /\ UNCHANGED snapshotTaken
    /\ UNCHANGED <<mNow, history>>
    /\ UNCHANGED <<orchVars, textVars, scrapeVars, laterVars>>

\* The metrics the monitor held after the first call recorded since
\* construction or reset.
FirstSnapshot ==
    LET h == history[1]
    IN  recordResult(FreshMetrics, h.book, h.method, h.success, h.confidence,
                     h.responseTime, h.at)

\* importMetrics is given a text exportMetrics returned earlier, right after
\* the first recorded call.  From then on the monitor holds the effects of
\* that call only.
ImportEarlier ==
    /\ Len(history) >= 2
    /\ LET jsonData == exportMetrics(FirstSnapshot)
           r == importMetrics(metrics, jsonData)
       IN  /\ metrics' = r.metrics
           /\ lastCall' = [op |-> "importMetrics", data |-> jsonData, ok |-> r.ok,
                           before |-> metrics]
           /\ snapshot' = IF r.ok THEN Detach(snapshot, metrics) ELSE snapshot
    /\ UNCHANGED snapshotTaken
    /\ history' = SubSeq(history, 1, 1)
    /\ UNCHANGED mNow
    /\ UNCHANGED <<orchVars, textVars, scrapeVars, laterVars>>

MonNext ==
    \/ RecordResult
    \/ RecordBatch
    \/ MonitorReset
    \/ GetBestMethod
    \/ ExportMetrics
    \/ ImportMetrics
    \/ ImportEarlier

\* getMetrics()
GetMetrics ==
    /\ snapshot' = SpreadCopy(metrics)
    /\ snapshotTaken' = metrics
    /\ lastCall' = NoCall
    /\ UNCHANGED <<metrics, mNow, history>>
    /\ UNCHANGED <<orchVars, textVars, scrapeVars, laterVars>>

SnapshotNext == RecordResult \/ MonitorReset \/ GetMetrics

\* A new TOCPerformanceMonitor.
MonIdle ==
    /\ metrics = FreshMetrics
    /\ mNow = 0
    /\ history = << >>
    /\ lastCall = NoCall
    /\ snapshot = NoSnapshot
    /\ snapshotTaken = NoSnapshot

\* ------------------------------------------------------------------------
\* Part 5: SessionManager
\*
\* A Set-Cookie line is held as the list of the pieces `split('=')` yields for
\* its part before the first ';': <<"JSESSIONID", "s1">> is `JSESSIONID=s1`,
\* <<"WMONID", "w1", "">> is `WMONID=w1=`, <<"flag">> is `flag`.

\* Number of makeAuthenticatedRequest calls one caller makes in a row.
MaxSessionCalls == 3

\* Number of navigateToBookDetail calls made in a row.
MaxNavigations == 2

\* Number of makeAuthenticatedRequest calls that overlap.
MaxConcurrentCalls == 2

Callers == {1, 2}

CookieNames == {"JSESSIONID", "WMONID", "flag"}

RootUrl == "https://www.nl.go.kr"

SearchUrl == "/NL/contents/search.do"

SearchResultUrl == "/NL/contents/search.do?srchTarget=total&kwd="

DetailUrl == "/NL/contents/detail.do?viewKey="

ApiUrl == "/NL/search/openApi/search.do"

\* The three hops of navigateToBookDetail: target and referrer.
Hops ==
    <<[url |-> SearchUrl, referrer |-> RootUrl],
      [url |-> SearchResultUrl, referrer |-> SearchUrl],
      [url |-> DetailUrl, referrer |-> SearchResultUrl]>>

\* The `set-cookie` header of a response with status 200: absent, or three
\* lines.
SetCookieHeaders ==
    {<< >>,
     << <<"JSESSIONID", "s1">>, <<"WMONID", "w1", "">>, <<"flag">> >>}

\* What requestUrl can yield: a response with status 200, a response with
\* another status that does not throw, or an exception (no connection, or a
\* status requestUrl throws on).
Throws == [threw |-> TRUE]

Responses ==
    {[status |-> 200, setCookie |-> h] : h \in SetCookieHeaders}
      \cup {[status |-> 204, setCookie |-> << <<"JSESSIONID", "s2">> >>]}
      \cup {Throws}

EmptyJar == [n \in CookieNames |-> ""]

\* `const [name, value] = nameValue.split('='); if (name && value)
\* this.cookies.set(name, value)`: the value is the piece after the first '=',
\* and a line without a value is skipped.
StoresCookie(line) == Len(line) >= 2 /\ line[1] # "" /\ line[2] # ""

\* extractCookiesFromResponse(response): the jar after the lines of the
\* header were processed in order.
RECURSIVE extractCookiesFromResponse(_, _, _)
extractCookiesFromResponse(jar, header, n) ==
    IF n = 0 THEN jar
    ELSE LET before == extractCookiesFromResponse(jar, header, n - 1)
         IN  IF StoresCookie(header[n])
             THEN [before EXCEPT ![header[n][1]] = header[n][2]]
             ELSE before

ExtractCookies(jar, response) ==
    extractCookiesFromResponse(jar, response.setCookie, Len(response.setCookie))

HandshakeJar_BeforeStatusCheck(jar, response) ==
    IF response = Throws THEN jar ELSE ExtractCookies(jar, response)

\* establishSession: cookies are read only `if (response.status === 200)`.
HandshakeJar(jar, response) ==
    IF response # Throws /\ response.status = 200
    THEN ExtractCookies(jar, response)
    ELSE jar

\* makeAuthenticatedRequest: extractCookiesFromResponse(response) stands
\* before the status test.
TargetJar(jar, response) ==
    IF response = Throws THEN jar ELSE ExtractCookies(jar, response)

IsOk(response) == response # Throws /\ response.status = 200

NeedsHandshake_Always(established) == TRUE

\* `if (!this.sessionEstablished)`
NeedsHandshake(established) == ~established

NoOp == [kind |-> "none"]

RequestOp(url, referrer) == [kind |-> "request", url |-> url, referrer |-> referrer]

NavigateOp(hop) == [kind |-> "navigate", hop |-> hop]

TargetOf_RootReferrer(op) ==
    IF op.kind = "navigate" THEN [url |-> Hops[op.hop].url, referrer |-> RootUrl]
    ELSE [url |-> op.url, referrer |-> op.referrer]

\* The url and the referrer of the makeAuthenticatedRequest call op is in.
TargetOf(op) ==
    IF op.kind = "navigate" THEN Hops[op.hop]
    ELSE [url |-> op.url, referrer |-> op.referrer]

\* A request as it is sent: getDefaultHeaders(referrer) reads the jar at that
\* moment.  referrer "" stands for no Referer header.
SentRequest(c, via, url, referrer, jar) ==
    [kind |-> "request", by |-> c, via |-> via, url |-> url, referrer |-> referrer,
     cookie |-> jar]

ReceivedResponse(c, via, response) ==
    [kind |-> "response", by |-> c, via |-> via,
     status |-> IF response = Throws THEN 0 ELSE response.status,
     setCookie |-> IF response = Throws THEN << >> ELSE response.setCookie]

ResetMark == [kind |-> "reset"]

HandshakeRequest(c, jar) == SentRequest(c, "establishSession", RootUrl, "", jar)

TargetRequest(c, op, jar) ==
    SentRequest(c, "makeAuthenticatedRequest", TargetOf(op).url, TargetOf(op).referrer,
                jar)

\* makeAuthenticatedRequest is entered by caller c for op, with `log` the
\* traffic so far: up to its first await it either sends the request of
\* establishSession or the target request.
EnterRequest(c, op, log) ==
    /\ cOp' = [cOp EXCEPT ![c] = op]
    /\ IF NeedsHandshake(sessionEstablished)
       THEN /\ cPc' = [cPc EXCEPT ![c] = "handshake"]
            /\ traffic' = Append(log, HandshakeRequest(c, cookies))
       ELSE /\ cPc' = [cPc EXCEPT ![c] = "request"]
            /\ traffic' = Append(log, TargetRequest(c, op, cookies))

\* makeAuthenticatedRequest(url) is called by c.
StartRequest(c) ==
    /\ cPc[c] = "idle"
    /\ sessionCalls < MaxSessionCalls
    /\ sessionCalls' = sessionCalls + 1
    /\ \E referrer \in {"", RootUrl} : EnterRequest(c, RequestOp(ApiUrl, referrer), traffic)
    /\ cOutcome' = [cOutcome EXCEPT ![c] = "none"]
    /\ UNCHANGED <<cookies, sessionEstablished>>
    /\ UNCHANGED <<orchVars, textVars, scrapeVars, monVars, noteVars>>

\* navigateToBookDetail(controlNo, bookTitle) is called by c.
StartNavigate(c) ==
    /\ cPc[c] = "idle"
    /\ sessionCalls < MaxNavigations
    /\ sessionCalls' = sessionCalls + 1
    /\ EnterRequest(c, NavigateOp(1), traffic)
    /\ cOutcome' = [cOutcome EXCEPT ![c] = "none"]
    /\ UNCHANGED <<cookies, sessionEstablished>>
    /\ UNCHANGED <<orchVars, textVars, scrapeVars, monVars, noteVars>>

\* The request of establishSession completes for c.  On status 200 the jar
\* and the flag are set and makeAuthenticatedRequest goes on to send the
\* target request; otherwise establishSession returns false and
\* makeAuthenticatedRequest throws.
HandshakeResponds(c) ==
    /\ cPc[c] = "handshake"
    /\ \E response \in Responses :
         LET jar == HandshakeJar(cookies, response)
             log == Append(traffic, ReceivedResponse(c, "establishSession", response))
         IN  /\ cookies' = jar
             /\ IF IsOk(response)
                THEN /\ sessionEstablished' = TRUE
                     /\ cPc' = [cPc EXCEPT ![c] = "request"]
                     /\ traffic' = Append(log, TargetRequest(c, cOp[c], jar))
                     /\ UNCHANGED cOutcome
                ELSE /\ cPc' = [cPc EXCEPT ![c] = "done"]
                     /\ cOutcome' = [cOutcome EXCEPT ![c] = "sessionError"]
                     /\ traffic' = log
                     /\ UNCHANGED sessionEstablished
    /\ UNCHANGED <<cOp, sessionCalls>>
    /\ UNCHANGED <<orchVars, textVars, scrapeVars, monVars, noteVars>>

\* The target request completes for c.  A response updates the jar whatever
\* its status; status 200 is returned, and inside navigateToBookDetail the
\* next hop enters makeAuthenticatedRequest; anything else is thrown.
TargetResponds(c) ==
    /\ cPc[c] = "request"
    /\ \E response \in Responses :
         LET jar == TargetJar(cookies, response)
             log == Append(traffic,
                           ReceivedResponse(c, "makeAuthenticatedRequest", response))
             op == cOp[c]
         IN  /\ cookies' = jar
             /\ IF IsOk(response) /\ op.kind = "navigate" /\ op.hop < Len(Hops)
                THEN LET next == NavigateOp(op.hop + 1)
                     IN  /\ cOp' = [cOp EXCEPT ![c] = next]
                         /\ IF NeedsHandshake(sessionEstablished)
                            THEN /\ cPc' = [cPc EXCEPT ![c] = "handshake"]
                                 /\ traffic' = Append(log, HandshakeRequest(c, jar))
                            ELSE /\ cPc' = [cPc EXCEPT ![c] = "request"]
                                 /\ traffic' = Append(log, TargetRequest(c, next, jar))
                         /\ UNCHANGED cOutcome
                ELSE /\ cPc' = [cPc EXCEPT ![c] = "done"]
                     /\ cOutcome' = [cOutcome EXCEPT ![c] =
                                        IF IsOk(response) THEN "ok" ELSE "requestError"]
                     /\ traffic' = log
                     /\ UNCHANGED cOp
    /\ UNCHANGED <<sessionEstablished, sessionCalls>>
    /\ UNCHANGED <<orchVars, textVars, scrapeVars, monVars, noteVars>>

\* The caller receives the outcome of its call.
SessionReturn(c) ==
    /\ cPc[c] = "done"
    /\ cPc' = [cPc EXCEPT ![c] = "idle"]
    /\ cOp' = [cOp EXCEPT ![c] = NoOp]
    /\ UNCHANGED <<cookies, sessionEstablished, cOutcome, traffic, sessionCalls>>
    /\ UNCHANGED <<orchVars, textVars, scrapeVars, monVars, noteVars>>

\* resetSession(), called between two calls.
ResetSession ==
    /\ \A c \in Callers : cPc[c] = "idle"
    /\ traffic # << >>
    /\ traffic[Len(traffic)] # ResetMark
    /\ cookies' = EmptyJar
    /\ sessionEstablished' = FALSE
    /\ traffic' = Append(traffic, ResetMark)
    /\ UNCHANGED <<cPc, cOp, cOutcome, sessionCalls>>
    /\ UNCHANGED <<orchVars, textVars, scrapeVars, monVars, noteVars>>

\* One caller that makes its calls one after the other.
SequentialNext ==
    \/ StartRequest(1)
    \/ HandshakeResponds(1)
    \/ TargetResponds(1)
    \/ SessionReturn(1)
    \/ ResetSession

NavigateNext ==
    \/ StartNavigate(1)
    \/ HandshakeResponds(1)
    \/ TargetResponds(1)
    \/ SessionReturn(1)
    \/ ResetSession

\* Two callers whose calls overlap.
ConcurrentNext ==
    \E c \in Callers :
        \/ (sessionCalls < MaxConcurrentCalls /\ StartRequest(c))
        \/ HandshakeResponds(c)
        \/ TargetResponds(c)
        \/ SessionReturn(c)

\* A new SessionManager.
SessIdle ==
    /\ cookies = EmptyJar
    /\ sessionEstablished = FALSE
    /\ cPc = [c \in Callers |-> "idle"]
    /\ cOp = [c \in Callers |-> NoOp]
    /\ cOutcome = [c \in Callers |-> "none"]
    /\ traffic = << >>
    /\ sessionCalls = 0

NoAttempt == [none |-> TRUE]

NoScore == [none |-> TRUE]

\* ------------------------------------------------------------------------
\* Part 6: KRBookPlugin.createBookNote and createNoteFile (main.ts)

\* Number of createBookNote calls.
MaxNoteCalls == 2

\* '목차 정보를 찾을 수 없습니다.'
TocNotFound == "no table of contents found"

\* 'ISBN 정보가 없어 목차를 가져올 수 없습니다.'
TocNoIsbn == "no ISBN, no table of contents"

\* '목차 정보 로딩 실패'
TocLoadFailed == "loading the table of contents failed"

\* book.tableOfContents as createBookNote can find it: absent, one of the
\* three placeholders, or a table of contents.
InitialTocs == {"", TocNotFound, TocNoIsbn, TocLoadFailed, "toc of the book"}

NoteBooks ==
    [tableOfContents : InitialTocs, controlNo : BOOLEAN, isbn : BOOLEAN]

NoBook == [tableOfContents |-> "", controlNo |-> FALSE, isbn |-> FALSE]

\* The condition of lines 91-95.
NeedsToc(book) ==
    book.tableOfContents \in {"", TocNotFound, TocNoIsbn, TocLoadFailed}

\* What webScraper.scrapeTOC settles with: null, a result whose toc has at
\* most 50 characters, a longer one, or an exception.
ScrapeTocOutcomes == {"null", "short", "long", "threw"}

\* What api.fetchTableOfContentsWithSession settles with.
ApiOutcomes == {"content", "successWithoutContent", "failure", "threw"}

\* What api.fetchTableOfContentsViaPlaywright settles with.
PlaywrightOutcomes == {"toc", "null", "threw"}

\* What api.searchByISBN settles with.
IsbnOutcomes == {"bookWithToc", "bookWithoutToc", "null", "threw"}

\* What the awaits of createNoteFile up to vault.create settle with: the file
\* is created, or createFolder or create rejects.
CreateOutcomes == {"created", "threw"}

\* What leaf.openFile settles with.
OpenOutcomes == {"opened", "threw"}

WithToc(book, toc) == [book EXCEPT !.tableOfContents = toc]

\* createNoteFile(book) is entered, inside the try block of createBookNote or
\* at line 162.
EnterCreateNoteFile(book, inTry) ==
    /\ noteBook' = book
    /\ notePc' = "create"
    /\ noteInTry' = inTry
    /\ noteInvocations' = noteInvocations + 1
    /\ UNCHANGED noteOutcome

\* Lines 152-154 and 162: no step found a table of contents.
NothingFound(book) == EnterCreateNoteFile(WithToc(book, TocNotFound), FALSE)

\* Lines 156-159 and 162: the catch block, then the statement after the if.
CatchBlock(book) == EnterCreateNoteFile(WithToc(book, TocLoadFailed), FALSE)

\* Line 141: the ISBN search, or the end of the chain.
AfterPlaywright(book) ==
    IF book.isbn
    THEN /\ notePc' = "isbn"
         /\ UNCHANGED <<noteBook, noteInTry, noteInvocations, noteOutcome>>
    ELSE NothingFound(book)

\* Line 130: the else branch of the API step.
AfterApiFailure(book) ==
    IF book.controlNo
    THEN /\ notePc' = "playwright"
         /\ UNCHANGED <<noteBook, noteInTry, noteInvocations, noteOutcome>>
    ELSE AfterPlaywright(book)

\* An exception inside createNoteFile: caught at line 156 when the call
\* stands in the try block, otherwise it rejects createBookNote.
CreateNoteFileThrows ==
    IF noteInTry
    THEN CatchBlock(noteBook)
    ELSE /\ notePc' = "done"
         /\ noteOutcome' = "rejected"
         /\ UNCHANGED <<noteBook, noteInTry, noteInvocations>>

\* createBookNote(book) is called.
CreateBookNote ==
    /\ notePc = "idle"
    /\ noteCalls < MaxNoteCalls
    /\ noteCalls' = noteCalls + 1
    /\ noteCreated' = 0
    /\ \E book \in NoteBooks, open \in BOOLEAN :
         /\ openNoteAfterCreation' = open
         /\ IF NeedsToc(book)
            THEN /\ notePc' = "scrape"
                 /\ noteBook' = book
                 /\ noteInTry' = TRUE
                 /\ noteInvocations' = 0
                 /\ noteOutcome' = "none"
            ELSE /\ noteBook' = book
                 /\ notePc' = "create"
                 /\ noteInTry' = FALSE
                 /\ noteInvocations' = 1
                 /\ noteOutcome' = "none"
    /\ UNCHANGED vaultFiles
    /\ UNCHANGED <<orchVars, textVars, scrapeVars, monVars, sessVars>>

\* webScraper.scrapeTOC settles (lines 103-109).
ScrapeTocSettles ==
    /\ notePc = "scrape"
    /\ \E outcome \in ScrapeTocOutcomes :
         IF outcome = "threw" THEN CatchBlock(noteBook)
         ELSE IF outcome = "long"
         THEN EnterCreateNoteFile(WithToc(noteBook, "scraped toc"), TRUE)
         ELSE /\ notePc' = "api"
              /\ UNCHANGED <<noteBook, noteInTry, noteInvocations, noteOutcome>>
    /\ UNCHANGED <<openNoteAfterCreation, noteCreated, vaultFiles, noteCalls>>
    /\ UNCHANGED <<orchVars, textVars, scrapeVars, monVars, sessVars>>

\* api.fetchTableOfContentsWithSession settles (lines 120-130).
ApiSettles ==
    /\ notePc = "api"
    /\ \E outcome \in ApiOutcomes :
         IF outcome = "threw" THEN CatchBlock(noteBook)
         ELSE IF outcome = "content"
         THEN EnterCreateNoteFile(WithToc(noteBook, "api toc"), TRUE)
         ELSE AfterApiFailure(noteBook)
    /\ UNCHANGED <<openNoteAfterCreation, noteCreated, vaultFiles, noteCalls>>
    /\ UNCHANGED <<orchVars, textVars, scrapeVars, monVars, sessVars>>

\* api.fetchTableOfContentsViaPlaywright settles (lines 132-141).
PlaywrightSettles ==
    /\ notePc = "playwright"
    /\ \E outcome \in PlaywrightOutcomes :
         IF outcome = "threw" THEN CatchBlock(noteBook)
         ELSE IF outcome = "toc"
         THEN EnterCreateNoteFile(WithToc(noteBook, "playwright toc"), TRUE)
         ELSE AfterPlaywright(noteBook)
    /\ UNCHANGED <<openNoteAfterCreation, noteCreated, vaultFiles, noteCalls>>
    /\ UNCHANGED <<orchVars, textVars, scrapeVars, monVars, sessVars>>

\* api.searchByISBN settles (lines 143-154).
IsbnSearchSettles ==
    /\ notePc = "isbn"
    /\ \E outcome \in IsbnOutcomes :
         IF outcome = "threw" THEN CatchBlock(noteBook)
         ELSE IF outcome = "bookWithToc"
         THEN EnterCreateNoteFile(WithToc(noteBook, "isbn toc"), TRUE)
         ELSE NothingFound(noteBook)
    /\ UNCHANGED <<openNoteAfterCreation, noteCreated, vaultFiles, noteCalls>>
    /\ UNCHANGED <<orchVars, textVars, scrapeVars, monVars, sessVars>>

\* createNoteFile, lines 168-223 up to the end of `await vault.create`: the
\* path is the first one not taken (name.md, name_1.md, ...), so a created
\* file is always one more file.  Without openNoteAfterCreation the file is
\* returned.
VaultCreateSettles ==
    /\ notePc = "create"
    /\ \E outcome \in CreateOutcomes :
         IF outcome = "threw"
         THEN /\ CreateNoteFileThrows
              /\ UNCHANGED <<noteCreated, vaultFiles>>
         ELSE /\ vaultFiles' = vaultFiles + 1
              /\ noteCreated' = noteCreated + 1
              /\ IF openNoteAfterCreation
                 THEN /\ notePc' = "open"
                      /\ UNCHANGED <<noteBook, noteInTry, noteInvocations, noteOutcome>>
                 ELSE /\ notePc' = "done"
                      /\ noteOutcome' = "file"
                      /\ UNCHANGED <<noteBook, noteInTry, noteInvocations>>
    /\ UNCHANGED <<openNoteAfterCreation, noteCalls>>
    /\ UNCHANGED <<orchVars, textVars, scrapeVars, monVars, sessVars>>

\* createNoteFile, lines 218-223: `await leaf.openFile(file)` settles.
OpenFileSettles ==
    /\ notePc = "open"
    /\ \E outcome \in OpenOutcomes :
         IF outcome = "threw"
         THEN CreateNoteFileThrows
         ELSE /\ notePc' = "done"
              /\ noteOutcome' = "file"
              /\ UNCHANGED <<noteBook, noteInTry, noteInvocations>>
    /\ UNCHANGED <<openNoteAfterCreation, noteCreated, vaultFiles, noteCalls>>
    /\ UNCHANGED <<orchVars, textVars, scrapeVars, monVars, sessVars>>

\* The caller receives the file or the exception.
NoteReturn ==
    /\ notePc = "done"
    /\ notePc' = "idle"
    /\ UNCHANGED <<noteBook, openNoteAfterCreation, noteInTry, noteInvocations,
                   noteCreated, vaultFiles, noteOutcome, noteCalls>>
    /\ UNCHANGED <<orchVars, textVars, scrapeVars, monVars, sessVars>>

NoteNext ==
    \/ CreateBookNote
    \/ ScrapeTocSettles
    \/ ApiSettles
    \/ PlaywrightSettles
    \/ IsbnSearchSettles
    \/ VaultCreateSettles
    \/ OpenFileSettles
    \/ NoteReturn

\* The plugin after onload, no note requested yet.
NoteIdle ==
    /\ notePc = "idle"
    /\ noteBook = NoBook
    /\ openNoteAfterCreation = FALSE
    /\ noteInTry = FALSE
    /\ noteInvocations = 0
    /\ noteCreated = 0
    /\ vaultFiles = 0
    /\ noteOutcome = "none"
    /\ noteCalls = 0

\* Part 2 at rest (while Part 1 runs).
TextIdle ==
    /\ candidate = EmptyText
    /\ verdict = "none"
    /\ attempt = NoAttempt
    /\ strategyResult = NoResult
    /\ score = NoScore

\* Part 1 at rest (while Part 2 runs).
OrchIdle ==
    /\ methodStats = [m \in {methodNames(extractor)[k] : k \in 1..Len(methodNames(extractor))}
                        |-> [attempts |-> 0, successes |-> 0]]
    /\ pc = "idle"
    /\ i = 1
    /\ bestResult = NoResult
    /\ returned = NoResult
    /\ escaped = FALSE
    /\ invoked = << >>
    /\ outputs = << >>
    /\ calls = 0
    /\ firstOutputs = << >>
    /\ firstReturned = NoResult

TextInit ==
    /\ extractor \in {"improved", "legacy"}
    /\ OrchIdle
    /\ ScrapeIdle
    /\ MonIdle
    /\ SessIdle
    /\ NoteIdle
    /\ candidate \in Texts(extractor, MaxRep)
    /\ verdict = "none"
    /\ attempt = NoAttempt
    /\ strategyResult = NoResult
    /\ score = NoScore

\* The validator of the class is applied to the candidate.
Validate ==
    /\ verdict = "none"
    /\ verdict' = IF Validator(extractor, candidate) THEN "accept" ELSE "reject"
    /\ UNCHANGED <<candidate, attempt, strategyResult, score>>
    /\ UNCHANGED orchVars
    /\ UNCHANGED <<scrapeVars, monVars, laterVars>>

\* The keys the strategies of class e pass to calculateConfidence, and a key
\* that is in neither weight table.
MethodKeys(e) ==
    IF e = "improved"
    THEN {"targeted-html", "direct-api-json", "direct-api-text", "enhanced-metadata",
          "limited-fallback", "unknown"}
    ELSE {"json-structured", "metadata", "direct-api-json", "direct-api-text",
          "search-results", "multiple-urls", "enhanced-html", "unknown"}

\* calculateConfidence is applied to an accepted candidate.
Score ==
    /\ verdict = "accept"
    /\ score = NoScore
    /\ \E method \in MethodKeys(extractor), matched \in 0..NumConfPatterns :
         score' = [method |-> method, matched |-> matched,
                   confidence |-> calculateConfidence(extractor, candidate, matched, method)]
    /\ UNCHANGED <<candidate, verdict, attempt, strategyResult>>
    /\ UNCHANGED orchVars
    /\ UNCHANGED <<scrapeVars, monVars, laterVars>>

TextNext == Validate \/ Score

SpecText == TextInit /\ [][TextNext]_vars

StrategyInit ==
    /\ extractor \in {"improved", "legacy"}
    /\ OrchIdle
    /\ ScrapeIdle
    /\ MonIdle
    /\ SessIdle
    /\ NoteIdle
    /\ candidate \in Texts(extractor, MaxRepStrategy)
    /\ verdict = "none"
    /\ attempt = NoAttempt
    /\ strategyResult = NoResult
    /\ score = NoScore

\* The strategies whose two branches differ in whether the body parsed as JSON.
ReadsJson(e, k) == IF e = "improved" THEN k \in {2, 3} ELSE k \in {1, 3, 4}

\* One strategy of the class is run on the candidate.  There is a candidate
\* only if the request was made and answered with text, and the scorer's
\* patterns are read only where the scorer runs.
AttemptStrategy ==
    /\ attempt = NoAttempt
    /\ \E hasControlNo \in BOOLEAN, fetch \in {"throws", "empty", "text"} :
         /\ Truthy(candidate) => fetch = "text" /\ hasControlNo
         /\ \E k \in 1..Len(methodNames(extractor)), json \in BOOLEAN :
              /\ ~ReadsJson(extractor, k) => json
              /\ \E matched \in 0..NumConfPatterns :
                   LET r == RunStrategy(extractor, k, hasControlNo, fetch, json,
                                        candidate, matched)
                   IN  /\ ~r.success => matched = 0
                       /\ attempt' = [strategy |-> k, hasControlNo |-> hasControlNo,
                                      fetch |-> fetch, json |-> json, matched |-> matched]
                       /\ strategyResult' = r
    /\ UNCHANGED <<candidate, verdict, score>>
    /\ UNCHANGED orchVars
    /\ UNCHANGED <<scrapeVars, monVars, laterVars>>

StrategyNext == AttemptStrategy

SpecStrategy == StrategyInit /\ [][StrategyNext]_vars

OrchInit ==
    /\ extractor \in {"improved", "legacy"}
    /\ OrchIdle
    /\ TextIdle
    /\ ScrapeIdle
    /\ MonIdle
    /\ SessIdle
    /\ NoteIdle

Spec == OrchInit /\ [][OrchNext]_vars

\* The event loop resumes the loop of extractTableOfContents whenever the
\* awaited strategy has resolved or rejected, and delivers the return value.
OrchFairness ==
    /\ WF_vars(TryStrategy)
    /\ WF_vars(Exhausted)
    /\ WF_vars(Finish)

SpecOrchFair == OrchInit /\ [][OrchHangNext]_vars /\ OrchFairness

\* A new MultiSiteScraper (the plugin holds one, made in onload).
ScrapeInit ==
    /\ extractor = "improved"
    /\ OrchIdle
    /\ TextIdle
    /\ ScrapeIdle
    /\ MonIdle
    /\ SessIdle
    /\ NoteIdle

SpecScrape == ScrapeInit /\ [][ScrapeNext]_vars

\* The event loop runs every task whose request has completed, and the
\* continuation of scrapeTOC once Promise.allSettled resolves.
ScrapeFairness ==
    /\ \A p \in Providers : WF_vars(TaskSettles(p))
    /\ WF_vars(Rank)
    /\ WF_vars(ScrapeFinish)

SpecScrapeFair == SpecScrape /\ ScrapeFairness

SpecCache == ScrapeInit /\ [][CacheNext]_vars

\* A new TOCPerformanceMonitor.
MonInit ==
    /\ extractor = "improved"
    /\ OrchIdle
    /\ TextIdle
    /\ ScrapeIdle
    /\ MonIdle
    /\ SessIdle
    /\ NoteIdle

SpecMonitor == MonInit /\ [][MonNext]_vars

SpecSnapshot == MonInit /\ [][SnapshotNext]_vars

\* A new SessionManager.
SessInit ==
    /\ extractor = "improved"
    /\ OrchIdle
    /\ TextIdle
    /\ ScrapeIdle
    /\ MonIdle
    /\ SessIdle
    /\ NoteIdle

SpecSession == SessInit /\ [][SequentialNext]_vars

SpecNavigate == SessInit /\ [][NavigateNext]_vars

SpecSessionRace == SessInit /\ [][ConcurrentNext]_vars

\* createBookNote alone.
NoteInit ==
    /\ extractor = "improved"
    /\ OrchIdle
    /\ TextIdle
    /\ ScrapeIdle
    /\ MonIdle
    /\ SessIdle
    /\ NoteIdle

SpecNote == NoteInit /\ [][NoteNext]_vars

\* ------------------------------------------------------------------------
\* Properties of the orchestrator

NumMethods == Len(methodNames(extractor))

IsSuccess(o) == o # Throw /\ o.success

IsHigh(o) == IsSuccess(o) /\ o.confidence >= 80

Successes == {k \in 1..Len(outputs) : IsSuccess(outputs[k])}

NoHigh == \A k \in 1..Len(outputs) : ~IsHigh(outputs[k])

\* The call has resolved (and the next call has not started).
Resolved == pc \in {"done", "idle"} /\ Len(outputs) > 0

\* The strategies were invoked in priority order, each once.
InvokedInOrder == invoked = [k \in 1..Len(invoked) |-> k]

\* C1: once strategy k yields a success with confidence >= 0.8, the call has
\* returned exactly that result and no strategy after k has been invoked,
\* whatever the earlier strategies yielded.
C1_EarlyExit ==
    /\ InvokedInOrder
    /\ Len(invoked) = Len(outputs)
    /\ \A k \in 1..Len(outputs) :
         IsHigh(outputs[k]) =>
           /\ Len(invoked) = k
           /\ pc # "loop"
           /\ returned = outputs[k]

\* A call that exited at a strategy that is not the last one, after an earlier
\* strategy had succeeded with a lower confidence.
C1_Witness ==
    /\ pc = "done"
    /\ Len(outputs) >= 2
    /\ Len(outputs) < NumMethods
    /\ IsHigh(outputs[Len(outputs)])
    /\ \E k \in 1..(Len(outputs) - 1) : IsSuccess(outputs[k])

\* C2: a call in which no strategy reached 0.8 and at least one succeeded
\* returns one of the successful strategy results, of maximal confidence.
C2_BestOfSurvivors ==
    (Resolved /\ NoHigh /\ Successes # {}) =>
       /\ \E k \in Successes : returned = outputs[k]
       /\ \A k \in Successes : returned.confidence >= outputs[k].confidence

\* Two survivors of different confidence, the better one first.
C2_Witness ==
    /\ pc = "done"
    /\ NoHigh
    /\ \E j, k \in Successes :
         j < k /\ outputs[j].confidence > outputs[k].confidence

\* The earliest strategy among the most confident successes.
FirstBest ==
    CHOOSE k \in Successes :
       /\ \A j \in Successes : outputs[k].confidence >= outputs[j].confidence
       /\ \A j \in Successes :
            outputs[j].confidence = outputs[k].confidence => k <= j

\* C3: below 0.8 the winner is the earliest strategy among those of maximal
\* confidence, and a later call given the same strategy outputs returns the
\* same method and confidence as the first call.
C3_TieBreakDeterminism ==
    /\ (Resolved /\ NoHigh /\ Successes # {}) => returned = outputs[FirstBest]
    /\ (calls >= 1 /\ pc = "done") =>
          /\ outputs = firstOutputs
          /\ returned.method = firstReturned.method
          /\ returned.confidence = firstReturned.confidence

\* A repeated call that ended with two survivors of equal confidence.
C3_Witness ==
    /\ calls >= 1
    /\ pc = "done"
    /\ NoHigh
    /\ \E j, k \in Successes :
         /\ j < k
         /\ outputs[j].confidence = outputs[k].confidence
         /\ returned = outputs[j]

\* Why strategy output o was not accepted.
ReasonOf(o) == IF o = Throw THEN "Exception" ELSE o.error

\* C4 as stated: when no strategy produced an accepted candidate the call
\* returns a failure result carrying the list of the per-strategy reasons,
\* one per strategy attempted, in priority order.
C4_CarriesReasons ==
    (Resolved /\ Successes = {}) =>
       /\ returned.success = FALSE
       /\ ReasonList(returned) = [k \in 1..Len(outputs) |-> ReasonOf(outputs[k])]

\* C4 as amended: when no strategy produced an accepted candidate, every
\* strategy was attempted once in priority order and the call returns the one
\* fixed failure result (success false, method "all-failed", confidence 0, one
\* fixed error message), which carries no per-strategy reasons.
C4_FixedAllFailed ==
    (Resolved /\ Successes = {}) =>
       /\ returned = AllFailedResult
       /\ returned.success = FALSE
       /\ ReasonList(returned) = << >>
       /\ invoked = [k \in 1..NumMethods |-> k]

\* Every strategy was rejected, for different reasons.
C4_Witness ==
    /\ pc = "done"
    /\ Successes = {}
    /\ Len(outputs) = NumMethods
    /\ \E j, k \in 1..Len(outputs) : ReasonOf(outputs[j]) # ReasonOf(outputs[k])

\* C6: the call never rejects with an exception.  A strategy that throws is
\* only passed over: the loop goes on to the next strategy, so a resolved call
\* either exited on a high-confidence result or attempted every strategy, and
\* it resolved to a success result or to the all-failed result.
C6_NoExceptionEscapes ==
    /\ ~escaped
    /\ (pc = "loop" => i = Len(outputs) + 1)
    /\ Resolved =>
         /\ InvokedInOrder
         /\ Len(invoked) = NumMethods \/ IsHigh(outputs[Len(outputs)])
         /\ returned # NoResult
         /\ returned = AllFailedResult \/ returned \in {outputs[k] : k \in Successes}

\* A strategy threw, and a later strategy of the same call succeeded.
C6_Witness ==
    /\ pc = "done"
    /\ \E j \in 1..Len(outputs) :
         /\ outputs[j] = Throw
         /\ \E k \in Successes : k > j /\ returned = outputs[k]

\* ------------------------------------------------------------------------
\* Properties of the strategies (specification SpecStrategy).

\* C5: a strategy result with success = true carries a non-empty content, and
\* the validator of the class accepts exactly that content; this holds on
\* every strategy path, the JSON paths and the cleaned path included.
C5_SuccessIsValidated ==
    (strategyResult # NoResult /\ strategyResult.success) =>
        /\ Truthy(strategyResult.content)
        /\ Validator(extractor, strategyResult.content)

\* The legacy direct-API strategy succeeded on its JSON path, where the
\* strategy itself only tests that extractTOCFromJSON returned something.
C5_Witness ==
    /\ extractor = "legacy"
    /\ attempt # NoAttempt
    /\ attempt.strategy = 3
    /\ attempt.json
    /\ strategyResult.success

\* ------------------------------------------------------------------------
\* Properties of the validator and of the scorer (specification SpecText).

\* C7: for a text the validator accepted and any method key, a key missing
\* from the weight table included, calculateConfidence returns a value in
\* [0, 1] (0..100 hundredths), whatever bonuses and adjustments apply.
C7_ConfidenceInUnitInterval ==
    score # NoScore => score.confidence >= 0 /\ score.confidence <= 100

\* An accepted text scored under a key missing from the weight table, with
\* bonuses that add up to more than 1 before the clamp.
C7_Witness ==
    /\ extractor = "improved"
    /\ verdict = "accept"
    /\ score # NoScore
    /\ score.method = "unknown"
    /\ ImprovedRawConfidence(candidate, score.matched, score.method) > 100

\* C8: isValidTableOfContentsStrict rejects every text shorter than 20 or
\* longer than 8000 characters, however many strong patterns it matches.
C8_LengthBounds ==
    (extractor = "improved" /\ verdict # "none"
       /\ (TextLength(candidate) < 20 \/ TextLength(candidate) > 8000))
    => verdict = "reject"

\* A text longer than 8000 characters that matches every strong pattern and no
\* blacklist pattern and has three countable lines was rejected.
C8_Witness ==
    /\ extractor = "improved"
    /\ verdict = "reject"
    /\ TextLength(candidate) > 8000
    /\ candidate.strong = NumStrongPatterns
    /\ ~candidate.invalid
    /\ CountLines(candidate, StrictLines) >= 3

\* C9: isValidTableOfContentsStrict rejects every text that matches a
\* blacklist pattern, also when the text matches two or more strong patterns
\* and meets the line-count and line-length conditions.
C9_BlacklistPrecedence ==
    (extractor = "improved" /\ verdict # "none" /\ candidate.invalid)
    => verdict = "reject"

\* A text within the length bounds that matches a blacklist pattern and two
\* strong patterns and has a good structure was rejected.
C9_Witness ==
    /\ extractor = "improved"
    /\ verdict = "reject"
    /\ candidate.invalid
    /\ candidate.strong >= 2
    /\ GoodStructure(candidate)
    /\ TextLength(candidate) >= 20
    /\ TextLength(candidate) <= 8000

\* The candidate is one the acceptance rule is about: it was validated by
\* isValidTableOfContentsStrict, is within the length bounds and matches no
\* blacklist pattern.
InScopeOfAcceptanceRule ==
    /\ extractor = "improved"
    /\ verdict # "none"
    /\ TextLength(candidate) >= 20
    /\ TextLength(candidate) <= 8000
    /\ ~candidate.invalid

\* The average length of the countable lines is in 10..60.
AvgInBand ==
    /\ TotalLength(candidate, StrictLines) >= 10 * CountLines(candidate, StrictLines)
    /\ TotalLength(candidate, StrictLines) <= 60 * CountLines(candidate, StrictLines)

\* C10 as stated: within the length bounds and off the blacklist, the text is
\* accepted exactly when (a) at least 3 countable lines remain, (b) a strong
\* pattern matches and (c) the average line length is in 10..60 or two strong
\* patterns match.
C10_ClaimedRule ==
    InScopeOfAcceptanceRule =>
        (verdict = "accept" <=>
            /\ CountLines(candidate, StrictLines) >= 3
            /\ candidate.strong >= 1
            /\ AvgInBand \/ candidate.strong >= 2)

\* C10 (amended): within the length bounds and off the blacklist, the text is
\* accepted exactly when at least 3 countable lines remain and either two
\* strong patterns match, or one strong pattern matches, at least 5 countable
\* lines remain, at least 70% of them are 5..100 characters long and the
\* average line length is in 10..60.
C10_AcceptanceRule ==
    InScopeOfAcceptanceRule =>
        (verdict = "accept" <=>
            /\ CountLines(candidate, StrictLines) >= 3
            /\ \/ candidate.strong >= 2
               \/ /\ candidate.strong = 1
                  /\ CountLines(candidate, StrictLines) >= 5
                  /\ 10 * CountLines(candidate, {l \in StrictLines : l >= 5 /\ l <= 100})
                       >= 7 * CountLines(candidate, StrictLines)
                  /\ AvgInBand)

\* A text of 3 or 4 countable lines with exactly one strong pattern and an
\* average line length in 10..60 was rejected.
C10_Witness ==
    /\ InScopeOfAcceptanceRule
    /\ CountLines(candidate, StrictLines) \in {3, 4}
    /\ candidate.strong = 1
    /\ AvgInBand
    /\ verdict = "reject"

\* ------------------------------------------------------------------------
\* Properties of scrapeTOC (specification SpecScrape) and of SimpleCache
\* (specification SpecCache).

\* The current call found nothing usable in the cache and started the tasks.
CacheMiss == sPc # "idle" /\ \A p \in Providers : scraped[p] # NotInvoked

\* The current call answered from the cache and started no task.
CacheHit ==
    /\ sPc = "done"
    /\ \A p \in Providers : scraped[p] = NotInvoked
    /\ sReturned # Null
    /\ sReturned.source = "Cache"

\* The providers whose task produced a result in the current call.
Survivors ==
    {p \in Providers : Settled(scraped[p]) /\ TaskValue(p, scraped[p]) # Null}

\* The most confident survivor, the earliest in configuration order on a tie.
Winner ==
    CHOOSE p \in Survivors :
        \A q \in Survivors :
            \/ TaskValue(p, scraped[p]).confidence > TaskValue(q, scraped[q]).confidence
            \/ /\ TaskValue(p, scraped[p]).confidence = TaskValue(q, scraped[q]).confidence
               /\ p <= q

\* C11: a call for a key for which nothing was stored invokes every provider;
\* a call made within the TTL of the text stored for its key invokes no
\* provider and returns that text; a call made after the TTL has elapsed
\* invokes the providers again.
C11_CacheRoundTrip ==
    sPc # "idle" =>
        /\ prior = NoEntry => CacheMiss
        /\ (prior # NoEntry /\ sStart - prior.timestamp <= CacheDuration) =>
              CacheHit /\ sReturned.toc = prior.toc
        /\ (prior # NoEntry /\ sStart - prior.timestamp > CacheDuration) => CacheMiss

\* A call made exactly one TTL after the text was stored answered from the
\* cache.
C11_Witness ==
    /\ CacheHit
    /\ prior # NoEntry
    /\ sStart - prior.timestamp = CacheDuration

\* C12: on a cache miss with at least one provider above the length floor the
\* call returns the survivor of highest confidence, the earlier provider on a
\* tie, and the text in the cache under the call's key is that winner's text.
C12_BestIsCached ==
    (sPc = "done" /\ CacheMiss /\ Survivors # {}) =>
        /\ sReturned = TaskValue(Winner, scraped[Winner])
        /\ \A q \in Survivors :
              sReturned.confidence >= TaskValue(q, scraped[q]).confidence
        /\ cache[sKey] # NoEntry
        /\ cache[sKey].toc = sReturned.toc

\* The second and the third provider tied above the first one, and the second
\* one was returned.
C12_Witness ==
    /\ sPc = "done"
    /\ Survivors = Providers
    /\ TaskValue(2, scraped[2]).confidence = TaskValue(3, scraped[3]).confidence
    /\ TaskValue(1, scraped[1]).confidence < TaskValue(2, scraped[2]).confidence
    /\ sReturned.source = ScraperNames[2]
    /\ cache[sKey].toc = scraped[2]

\* C13 as stated: every result of scrapeTOC that is not null has a confidence
\* in [0, 1], and on a cache hit the confidence is 1.
C13_ClaimedUnitInterval ==
    (sPc = "done" /\ sReturned # Null) =>
        /\ sReturned.confidence >= 0
        /\ sReturned.confidence <= 1
        /\ sReturned.source = "Cache" => sReturned.confidence = 1

\* C13 (amended): every result of scrapeTOC that is not null has a confidence
\* in [0, 100] (a percentage), and on a cache hit the confidence is 100.
C13_PercentScale ==
    (sPc = "done" /\ sReturned # Null) =>
        /\ sReturned.confidence >= 0
        /\ sReturned.confidence <= 100
        /\ sReturned.source = "Cache" => sReturned.confidence = 100

\* A cache hit reported 100 for a text that scored less when it was scraped.
C13_Witness ==
    /\ CacheHit
    /\ sReturned.confidence = 100
    /\ ScraperConfidence(sReturned.toc) < 100

\* C14: SimpleCache.get returns a text only if it is the text last stored for
\* the key and at most 7 days have passed since; once more than 7 days have
\* passed it returns null and the entry is gone, so every later read returns
\* null until the next set.
C14_NoExpiredRead ==
    cacheRead # NoRead =>
        LET stored == lastSet[cacheRead.key]
        IN  /\ cacheRead.value # Null =>
                 /\ stored # NoEntry
                 /\ cacheRead.value = stored.toc
                 /\ cacheRead.at - stored.timestamp <= CacheDuration
            /\ (stored # NoEntry /\ cacheRead.at - stored.timestamp > CacheDuration) =>
                 /\ cacheRead.value = Null
                 /\ cache[cacheRead.key] = NoEntry
            /\ (stored # NoEntry /\ cacheRead.at - stored.timestamp <= CacheDuration) =>
                 cacheRead.value = stored.toc

\* A read one day after the TTL of a stored text returned null.
C14_Witness ==
    /\ cacheRead # NoRead
    /\ lastSet[cacheRead.key] # NoEntry
    /\ cacheRead.at - lastSet[cacheRead.key].timestamp = CacheDuration + 1
    /\ cacheRead.value = Null

\* C15: on a cache miss the call returns only after every provider task has
\* settled; the result is the winner among all providers' outcomes (null if
\* none survived), whichever task settled first and whichever provider threw
\* or returned too short a text.
C15_SettleAll ==
    (sPc = "done" /\ CacheMiss) =>
        /\ \A p \in Providers : Settled(scraped[p])
        /\ sReturned = IF Survivors = {} THEN Null
                       ELSE TaskValue(Winner, scraped[Winner])

\* The task that settled first had a result of lower confidence than the one
\* returned, and another provider threw.
C15_Witness ==
    /\ sPc = "done"
    /\ firstSettled \in Survivors
    /\ sReturned # Null
    /\ TaskValue(firstSettled, scraped[firstSettled]).confidence < sReturned.confidence
    /\ \E p \in Providers : scraped[p] = Threw

\* C16: every provider task is bounded by a timeout, so a scrapeTOC call that
\* started its tasks eventually returns, also when a provider's remote request
\* never completes.
C16_ScrapeEventuallyReturns == (sPc = "running") ~> (sPc = "done")

\* C17: every strategy attempt is bounded by a request timeout, so a call of
\* extractTableOfContents that entered its loop eventually returns, also when
\* a strategy's remote request never completes.
C17_ExtractEventuallyReturns == (pc = "loop") ~> (pc = "done")

\* ------------------------------------------------------------------------
\* Properties of TOCPerformanceMonitor

Minimum(a, b) == IF a < b THEN a ELSE b

\* The entries recentResults must hold: the last min(N, 100) recorded calls,
\* in call order.
ExpectedRecent ==
    LET n == Len(history)
        k == Minimum(n, maxRecentResults)
    IN  [j \in 1..k |->
            LET h == history[n - k + j]
            IN  RecentEntry(h.book, h.method, h.success, h.confidence,
                            h.responseTime, h.at)]

\* C18: after the N recordResult calls made since construction or reset,
\* totalAttempts is N, totalSuccesses is the number of those calls with
\* success = true, and recentResults holds the min(N, 100) most recent calls
\* in call order, so it never has more than 100 entries and the oldest entry
\* is the one evicted.
C18_TotalsAndRecent ==
    /\ metrics.totalAttempts = Len(history)
    /\ metrics.totalSuccesses =
           Cardinality({j \in 1..Len(history) : history[j].success})
    /\ Len(metrics.recentResults) <= maxRecentResults
    /\ metrics.recentResults = ExpectedRecent

\* More than 100 calls were recorded, a success among them: the buffer is
\* full, its first entry is no longer the first call and its last entry is the
\* last call.
C18_Witness ==
    /\ Len(history) > maxRecentResults
    /\ metrics.totalSuccesses > 0
    /\ Len(metrics.recentResults) = maxRecentResults
    /\ metrics.recentResults[maxRecentResults].timestamp = Date(history[Len(history)].at)
    /\ metrics.recentResults[maxRecentResults].timestamp # Date(history[1].at)

AttemptsOf(method) ==
    LET k == MethodIndex(metrics.methodBreakdown, method)
    IN  IF k = 0 THEN 0 ELSE metrics.methodBreakdown[k].attempts

\* C19: the method getBestMethod returns has at least 3 recorded attempts,
\* also when no method has reached 3 attempts.
C19_NeverUnderThreeAttempts ==
    (lastCall.op = "getBestMethod" /\ lastCall.value # Null) =>
        AttemptsOf(lastCall.value.method) >= MinAttempts

\* importMetrics was given the text exportMetrics returned for the metrics
\* the monitor held.
ImportedOwnExport ==
    /\ lastCall.op = "importMetrics"
    /\ lastCall.data = exportMetrics(lastCall.before)

\* C20: importMetrics(exportMetrics()) returns true and leaves the monitor
\* with the metrics it had: totals, confidence distribution, per-method
\* counters and averages, per-method lastUsed dates and recent-result
\* timestamps, the dates being Date objects again.
C20_SnapshotRoundTrip ==
    ImportedOwnExport => (lastCall.ok /\ metrics = lastCall.before)

\* The round trip was made on a monitor that holds two methods used at
\* different times and a success.
C20_Witness ==
    /\ ImportedOwnExport
    /\ lastCall.ok
    /\ Len(metrics.methodBreakdown) = 2
    /\ metrics.methodBreakdown[1].lastUsed # metrics.methodBreakdown[2].lastUsed
    /\ metrics.totalSuccesses > 0
    /\ metrics.recentResults[1].timestamp = Date(1)

\* The counters and averages metrics m holds for a method (zeros if it holds
\* no entry for it).
StatsIn(m, method) ==
    LET k == MethodIndex(m.methodBreakdown, method)
    IN  IF k = 0
        THEN [attempts |-> 0, successes |-> 0, avgResponseTime |-> 0,
              avgConfidence |-> 0]
        ELSE [attempts |-> m.methodBreakdown[k].attempts,
              successes |-> m.methodBreakdown[k].successes,
              avgResponseTime |-> m.methodBreakdown[k].avgResponseTime,
              avgConfidence |-> m.methodBreakdown[k].avgConfidence]

\* This step is one recordResult call with success = false.
RecordsFailure ==
    /\ Len(history') = Len(history) + 1
    /\ ~history'[Len(history')].success

RecordedMethod == history'[Len(history')].method

\* C21 (as claimed): a recordResult call with success = false leaves the
\* attempts and successes counters of its method unchanged.
C21_FailureLeavesCounters ==
    [][RecordsFailure =>
          /\ StatsIn(metrics', RecordedMethod).attempts
                 = StatsIn(metrics, RecordedMethod).attempts
          /\ StatsIn(metrics', RecordedMethod).successes
                 = StatsIn(metrics, RecordedMethod).successes]_vars

\* C21 (amended): a recordResult call with success = false adds one to the
\* attempts of its method and to totalAttempts, and leaves the method's
\* successes and averages, totalSuccesses and the confidence distribution
\* unchanged; the other methods' entries are unchanged.
C21_FailureCountsAttemptOnly ==
    [][RecordsFailure =>
          /\ StatsIn(metrics', RecordedMethod)
                 = [StatsIn(metrics, RecordedMethod) EXCEPT !.attempts = @ + 1]
          /\ \A other \in MonitorMethods \ {RecordedMethod} :
                 StatsIn(metrics', other) = StatsIn(metrics, other)
          /\ metrics'.totalAttempts = metrics.totalAttempts + 1
          /\ metrics'.totalSuccesses = metrics.totalSuccesses
          /\ metrics'.confidenceDistribution = metrics.confidenceDistribution]_vars

\* The last recorded call failed, for a method that had succeeded before.
C21_Witness ==
    /\ Len(history) >= 2
    /\ ~history[Len(history)].success
    /\ LET st == StatsIn(metrics, history[Len(history)].method)
       IN  st.successes >= 1 /\ st.attempts = st.successes + 1

\* No method's attempts or successes are lower after the step than before.
CountersNotLower ==
    \A method \in MonitorMethods :
        /\ StatsIn(metrics', method).attempts >= StatsIn(metrics, method).attempts
        /\ StatsIn(metrics', method).successes >= StatsIn(metrics, method).successes

\* C22 (as claimed): for every method, attempts and successes never decrease
\* across recordResult, reset and importMetrics.
C22_AppendOnly == [][CountersNotLower]_vars

\* C22 (amended): attempts and successes never decrease and no entry
\* disappears across recordResult calls; reset removes every entry; a
\* successful importMetrics leaves exactly the statistics of the imported
\* text, whatever the monitor held.
C22_AppendOnlyBetweenReplacements ==
    [][/\ (Len(history') > Len(history)) =>
              /\ CountersNotLower
              /\ Len(metrics'.methodBreakdown) >= Len(metrics.methodBreakdown)
       /\ (history # << >> /\ history' = << >>) => metrics' = FreshMetrics
       /\ (lastCall' # lastCall /\ lastCall'.op = "importMetrics" /\ lastCall'.ok) =>
              exportMetrics(metrics') = lastCall'.data]_vars

\* An import has replaced the statistics by earlier ones: the monitor holds
\* fewer attempts than before the call.
C22_Witness ==
    /\ lastCall.op = "importMetrics"
    /\ lastCall.ok
    /\ metrics.totalAttempts < lastCall.before.totalAttempts
    /\ \E method \in MonitorMethods :
           StatsIn(metrics, method).attempts < StatsIn(lastCall.before, method).attempts

RECURSIVE SumAttempts(_, _)
SumAttempts(breakdown, n) ==
    IF n = 0 THEN 0 ELSE breakdown[n].attempts + SumAttempts(breakdown, n - 1)

RECURSIVE SumSuccesses(_, _)
SumSuccesses(breakdown, n) ==
    IF n = 0 THEN 0 ELSE breakdown[n].successes + SumSuccesses(breakdown, n - 1)

\* C28: the three confidence buckets add up to totalSuccesses, which is also
\* the sum of the per-method successes; the per-method attempts add up to
\* totalAttempts; and no method has more successes than attempts.
C28_CountersConsistent ==
    LET dist == metrics.confidenceDistribution
        breakdown == metrics.methodBreakdown
    IN  /\ dist.high + dist.medium + dist.low = metrics.totalSuccesses
        /\ SumSuccesses(breakdown, Len(breakdown)) = metrics.totalSuccesses
        /\ SumAttempts(breakdown, Len(breakdown)) = metrics.totalAttempts
        /\ \A k \in 1..Len(breakdown) : breakdown[k].successes <= breakdown[k].attempts

\* Two methods were recorded, with a failure and successes in the medium
\* bucket and in another one.
C28_Witness ==
    /\ Len(metrics.methodBreakdown) = 2
    /\ metrics.totalAttempts > metrics.totalSuccesses
    /\ metrics.confidenceDistribution.medium >= 1
    /\ metrics.totalSuccesses >= 2
    /\ metrics.confidenceDistribution.medium < metrics.totalSuccesses

\* C23: the object getMetrics returned still reads as the metrics it was
\* taken from, whatever was recorded since.
C23_SnapshotIsStable ==
    snapshot # NoSnapshot => SnapshotValue = snapshotTaken

\* ------------------------------------------------------------------------
\* More properties of MultiSiteScraper.scrapeTOC

\* C29: a call in which no provider produced a result above the length floor
\* returns null and stores nothing, so the cache holds no entry for its key
\* and the last text stored for the key is the one stored before the call;
\* every entry the cache holds was stored by a call that returned a result.
C29_FailuresNotCached ==
    /\ (sPc = "done" /\ CacheMiss /\ Survivors = {}) =>
          /\ sReturned = Null
          /\ cache[sKey] = NoEntry
          /\ lastSet[sKey] = prior
    /\ \A key \in CacheKeys : cache[key] # NoEntry => cache[key] = lastSet[key]

\* A call found the text stored for its key expired, one provider threw,
\* another returned too short a text, and the call returned null.
C29_Witness ==
    /\ sPc = "done"
    /\ CacheMiss
    /\ sReturned = Null
    /\ prior # NoEntry
    /\ \E p \in Providers : scraped[p] = Threw
    /\ \E p \in Providers : scraped[p] \in ProviderTexts

\* ------------------------------------------------------------------------
\* Properties of SessionManager

IsRequest(e, via) == e.kind = "request" /\ e.via = via

IsResponse(e, via) == e.kind = "response" /\ e.via = via

\* Number of establishSession requests sent so far.
HandshakeCount(log) ==
    Cardinality({k \in 1..Len(log) : IsRequest(log[k], "establishSession")})

\* Caller c enters a call in this step.
Starts(c) == cPc[c] = "idle" /\ cPc'[c] # "idle"

\* C24: a call handshakes exactly when the session is not established as it
\* starts; a handshake request is never sent while the session is
\* established; only resetSession takes the session back to un-established,
\* and it empties the jar; the session becomes established only by a
\* handshake response.
C24_LazyHandshake ==
    [][/\ Starts(1) =>
              /\ (cPc'[1] = "handshake") <=> ~sessionEstablished
              /\ HandshakeCount(traffic')
                     = HandshakeCount(traffic) + (IF sessionEstablished THEN 0 ELSE 1)
       /\ (HandshakeCount(traffic') > HandshakeCount(traffic)) => ~sessionEstablished
       /\ (sessionEstablished /\ ~sessionEstablished') =>
              traffic' = Append(traffic, ResetMark)
       /\ (traffic' = Append(traffic, ResetMark)) =>
              (cookies' = EmptyJar /\ ~sessionEstablished')
       /\ (~sessionEstablished /\ sessionEstablished') => cPc[1] = "handshake"]_vars

\* A call was answered without a handshake right after an earlier call, the
\* session was reset later, and a call after the reset sent the handshake
\* request again.
C24_Witness ==
    \E k, r, h \in 1..Len(traffic) :
        /\ k + 1 < r /\ r < h
        /\ IsResponse(traffic[k], "makeAuthenticatedRequest")
        /\ IsRequest(traffic[k + 1], "makeAuthenticatedRequest")
        /\ traffic[r] = ResetMark
        /\ IsRequest(traffic[h], "establishSession")
        /\ HandshakeCount(traffic) = 2

\* The handshake of caller 1 fails in this step.
HandshakeFails == cPc[1] = "handshake" /\ cPc'[1] = "done"

\* C25: when the handshake fails the call ends with the session error, the
\* only thing added to the traffic is the handshake's response (no request to
\* the target), the jar and the flag are as before, the flag being false; and
\* the call that follows a session error sends the handshake request again.
C25_HandshakeFailure ==
    [][/\ HandshakeFails =>
              /\ cOutcome'[1] = "sessionError"
              /\ Len(traffic') = Len(traffic) + 1
              /\ IsResponse(traffic'[Len(traffic')], "establishSession")
              /\ traffic'[Len(traffic')].status # 200
              /\ IsRequest(traffic[Len(traffic)], "establishSession")
              /\ cookies' = cookies
              /\ ~sessionEstablished'
       /\ (cPc[1] = "handshake" /\ cPc'[1] = "request") =>
              traffic'[Len(traffic') - 1].status = 200
       /\ (Starts(1) /\ cOutcome[1] = "sessionError" /\ traffic[Len(traffic)] # ResetMark)
              => (cPc'[1] = "handshake" /\ IsRequest(traffic'[Len(traffic')], "establishSession"))]_vars

\* A handshake was answered with a status other than 200 and a Set-Cookie
\* header; the call ended with the session error, and the call after it sent
\* the handshake request again.
C25_Witness ==
    /\ Len(traffic) >= 3
    /\ IsResponse(traffic[Len(traffic) - 1], "establishSession")
    /\ traffic[Len(traffic) - 1].status = 204
    /\ traffic[Len(traffic) - 1].setCookie # << >>
    /\ IsRequest(traffic[Len(traffic)], "establishSession")
    /\ traffic[Len(traffic)].cookie = EmptyJar
    /\ cPc[1] = "handshake"

\* C26: of two overlapping calls on a session that is not established, at
\* most one has a handshake request in flight.
C26_HandshakeIssuedOnce ==
    Cardinality({c \in Callers : cPc[c] = "handshake"}) <= 1

\* The jar after the traffic up to entry k: a reset empties it, a response to
\* a target request and a 200 response to the handshake add their cookies.
RECURSIVE JarAfter(_)
JarAfter(k) ==
    IF k = 0 THEN EmptyJar
    ELSE LET e == traffic[k]
         IN  IF e = ResetMark THEN EmptyJar
             ELSE IF e.kind = "response"
                     /\ (e.via = "makeAuthenticatedRequest" \/ e.status = 200)
             THEN extractCookiesFromResponse(JarAfter(k - 1), e.setCookie,
                                             Len(e.setCookie))
             ELSE JarAfter(k - 1)

\* The hop whose target entry e requests, 0 if none.
HopOf(e) ==
    IF \E h \in 1..Len(Hops) : e.url = Hops[h].url
    THEN CHOOSE h \in 1..Len(Hops) : e.url = Hops[h].url
    ELSE 0

\* C27: every request navigateToBookDetail sends to a target is one of the
\* three hops, with the previous hop's URL as Referer (the site root for the
\* first) and the jar accumulated from the earlier responses as Cookie; a
\* later hop is requested only right after the 200 response to the hop before
\* it, so after a failed hop no later hop is requested; the call fails when a
\* hop fails and succeeds only after the three hops were answered with 200.
C27_HopsInOrder ==
    /\ \A k \in 1..Len(traffic) :
          IsRequest(traffic[k], "makeAuthenticatedRequest") =>
              LET h == HopOf(traffic[k])
              IN  /\ h >= 1
                  /\ traffic[k].referrer = (IF h = 1 THEN RootUrl ELSE Hops[h - 1].url)
                  /\ traffic[k].cookie = JarAfter(k - 1)
                  /\ h > 1 =>
                        /\ IsResponse(traffic[k - 1], "makeAuthenticatedRequest")
                        /\ traffic[k - 1].status = 200
                        /\ IsRequest(traffic[k - 2], "makeAuthenticatedRequest")
                        /\ HopOf(traffic[k - 2]) = h - 1
    /\ (cPc[1] \in {"done", "idle"} /\ traffic # << >> /\ traffic[Len(traffic)] # ResetMark) =>
          LET last == traffic[Len(traffic)]
          IN  /\ last.kind = "response"
              /\ (cOutcome[1] = "ok") <=>
                    /\ last.via = "makeAuthenticatedRequest"
                    /\ last.status = 200
                    /\ HopOf(traffic[Len(traffic) - 1]) = Len(Hops)
              /\ (cOutcome[1] = "requestError") <=>
                    (last.via = "makeAuthenticatedRequest" /\ last.status # 200)

\* A navigation that succeeded, whose third hop carried cookies its first hop
\* did not carry.
C27_Witness ==
    /\ cPc[1] = "done"
    /\ cOutcome[1] = "ok"
    /\ Len(traffic) >= 8
    /\ HopOf(traffic[Len(traffic) - 1]) = 3
    /\ HopOf(traffic[Len(traffic) - 5]) = 1
    /\ traffic[Len(traffic) - 5].cookie = EmptyJar
    /\ traffic[Len(traffic) - 1].cookie # EmptyJar

\* A hop failed and the navigation ended there.
C27_Failed ==
    /\ cPc[1] = "done"
    /\ cOutcome[1] = "requestError"
    /\ HopOf(traffic[Len(traffic) - 1]) = 2

\* ------------------------------------------------------------------------
\* Properties of createBookNote (specification SpecNote)

\* C30: one createBookNote call invokes createNoteFile at most once, on every
\* path of the fallback chain, the paths on which a lookup or createNoteFile
\* fails included.
C30_CreateNoteFileAtMostOnce == noteInvocations <= 1

\* One createBookNote call has created two note files.
C30_TwoFilesOneCall == noteCreated >= 2

\* Every path on which createNoteFile does not throw inside the try block
\* invokes it once: a second invocation is only ever the one after the catch
\* block, with the placeholder of the catch block as table of contents.
C30_SecondInvocationIsAfterCatch ==
    /\ noteInvocations <= 2
    /\ noteInvocations = 2 =>
          (~noteInTry /\ noteBook.tableOfContents = TocLoadFailed)
    /\ (notePc = "done" /\ noteOutcome = "file") => noteInvocations >= 1

====
